---- MODULE Spec2Model ----
(***************************************************************************)
(* ValutaTrade Hub: a model of the domain objects (User, Wallet,           *)
(* Portfolio), the JSON persistence managers, the use-case layer, the CLI  *)
(* session gate and the JSON storage manager.                              *)
(*                                                                         *)
(* Python floats are modelled as exact rationals [n, d] (d > 0, lowest     *)
(* terms); round(x, k) is round-half-to-even on the exact value.  The      *)
(* amounts used below have no half-way digit, so the binary representation *)
(* error of a float never decides a rounding.                              *)
(***************************************************************************)
EXTENDS Integers, Sequences, FiniteSets, TLC

VARIABLES
    pf,          \* an in-memory Portfolio object: [user_id, wallets]
    res,         \* outcome of the last operation (return value / exception)
    portfolios,  \* data/portfolios.json: user_id -> wallets
    rates,       \* data/rates.json: Absent, or [source, last_refresh, rates]
    now,         \* datetime.now(), in seconds
    users,       \* data/users.json: the sequence of user records
    user,        \* an in-memory User object, None before create_new
    current_user,\* CLI.current_user: None or [id, username, user_object]
    cache, dir, inodes, lock, threads, saves, \* the JSON storage manager
    exchange_rates, \* exchange_rates.json: record id -> history record
    memo,        \* a cache_result wrapper: its ttl and its cache dict
    scheduler,   \* a RatesScheduler object and the threads it started
    client       \* an API client object and the clock of its requests

vars == <<pf, res, portfolios, rates, now, users, user, current_user,
          cache, dir, inodes, lock, threads, saves, exchange_rates,
          memo, scheduler, client>>

(***************************************************************************)
(* Exact rational arithmetic standing for float arithmetic.                *)
(***************************************************************************)
Abs(a) == IF a < 0 THEN -a ELSE a

RECURSIVE GCD(_, _)
GCD(a, b) == IF b = 0 THEN a ELSE GCD(b, a % b)

RECURSIVE Pow10(_)
Pow10(k) == IF k = 0 THEN 1 ELSE 10 * Pow10(k - 1)

Frac(n, d) ==
    LET g == GCD(Abs(n), d)
    IN  [n |-> n \div g, d |-> d \div g]

Zero == [n |-> 0, d |-> 1]

\* float('inf'): x / Infinity is 0 and Infinity is above every number
Infinity == [n |-> 1, d |-> 0]

FNeg(a) == [n |-> -a.n, d |-> a.d]

FAdd(a, b) ==
    LET g == GCD(a.d, b.d)
        l == (a.d \div g) * b.d
    IN  Frac(a.n * (l \div a.d) + b.n * (l \div b.d), l)

FSub(a, b) == FAdd(a, FNeg(b))

FMul(a, b) ==
    LET g1 == GCD(Abs(a.n), b.d)
        g2 == GCD(Abs(b.n), a.d)
    IN  Frac((a.n \div g1) * (b.n \div g2), (a.d \div g2) * (b.d \div g1))

\* a / b for b # 0
FDiv(a, b) ==
    FMul(a, IF b.n < 0 THEN [n |-> -b.d, d |-> -b.n] ELSE [n |-> b.d, d |-> b.n])

FLt(a, b) ==
    LET g == GCD(a.d, b.d)
    IN  a.n * (b.d \div g) < b.n * (a.d \div g)

FLe(a, b) == ~FLt(b, a)

\* round(x, k): nearest multiple of 10^-k, ties to even
Round(x, k) ==
    LET p   == Pow10(k)
        g   == GCD(p, x.d)
        pp  == p \div g
        dd  == x.d \div g
        w   == x.n \div x.d
        r   == x.n % x.d
        q   == (r * pp) \div dd
        rr  == (r * pp) % dd
        m0  == w * p + q
        m   == IF 2 * rr < dd THEN m0
               ELSE IF 2 * rr > dd THEN m0 + 1
               ELSE IF m0 % 2 = 0 THEN m0 ELSE m0 + 1
    IN  Frac(m, p)

(***************************************************************************)
(* Currency registry (core/currencies.py).                                 *)
(***************************************************************************)
CURRENCY_REGISTRY ==
    {"USD", "EUR", "RUB", "GBP", "JPY", "BTC", "ETH", "ADA", "SOL", "XRP"}

is_currency_registered(code) == code \in CURRENCY_REGISTRY

(***************************************************************************)
(* Exceptions are values: the operation returns the exception it raises.   *)
(***************************************************************************)
NoExc == [type |-> "None"]

ValueError == [type |-> "ValueError"]

InsufficientFundsError(code, available, required) ==
    [type |-> "InsufficientFundsError", currency_code |-> code,
     available |-> available, required |-> required]

CurrencyNotFoundError == [type |-> "CurrencyNotFoundError"]

InvalidAmountError == [type |-> "InvalidAmountError"]

UserNotFoundError == [type |-> "UserNotFoundError"]

TypeError == [type |-> "TypeError"]

\* fractions.Fraction(n, d): a number that is neither an int nor a float
Fraction(n, d) == [n |-> n, d |-> d, kind |-> "Fraction"]

\* isinstance(amount, (int, float))
is_int_or_float(amount) == "kind" \notin DOMAIN amount

(***************************************************************************)
(* Wallet (core/models.py).  A wallet is its balance; the currency code is *)
(* the key under which the portfolio holds it.                             *)
(***************************************************************************)
FiatList == {"USD", "EUR", "RUB", "GBP", "JPY"}

\* number of decimals the balance setter rounds to
balance_digits(code) ==
    IF code \in FiatList \/ Len(code) = 3 THEN 2 ELSE 8

\* a balance setter that accepts negative values
set_balance_unchecked(code, old, value) ==
    [exc |-> NoExc, balance |-> Round(value, balance_digits(code))]

\* Wallet.balance setter: [exc, balance]
set_balance(code, old, value) ==
    IF FLt(value, Zero)
    THEN [exc |-> ValueError, balance |-> old]
    ELSE [exc |-> NoExc, balance |-> Round(value, balance_digits(code))]

\* Wallet.deposit
deposit(code, balance, amount) ==
    IF ~is_int_or_float(amount)
    THEN [exc |-> TypeError, balance |-> balance]
    ELSE IF FLe(amount, Zero)
    THEN [exc |-> ValueError, balance |-> balance]
    ELSE set_balance(code, balance, FAdd(balance, amount))

\* a withdraw that does not compare the amount with the balance
withdraw_unchecked(code, balance, amount) ==
    IF FLe(amount, Zero)
    THEN [exc |-> ValueError, balance |-> balance]
    ELSE set_balance(code, balance, FSub(balance, amount))

\* Wallet.withdraw
withdraw(code, balance, amount) ==
    IF ~is_int_or_float(amount)
    THEN [exc |-> TypeError, balance |-> balance]
    ELSE IF FLe(amount, Zero)
    THEN [exc |-> ValueError, balance |-> balance]
    ELSE IF FLt(balance, amount)
    THEN [exc |-> InsufficientFundsError(code, balance, amount),
          balance |-> balance]
    ELSE set_balance(code, balance, FSub(balance, amount))

(***************************************************************************)
(* Portfolio (core/models.py): wallets is a function code -> balance.      *)
(***************************************************************************)
\* Portfolio.add_currency: [ret, wallets]
add_currency(wallets, code, initial_balance) ==
    IF code \in DOMAIN wallets
    THEN [ret |-> FALSE, wallets |-> wallets]
    ELSE IF ~is_currency_registered(code)
    THEN [ret |-> FALSE, wallets |-> wallets]
    ELSE LET w == set_balance(code, Zero, initial_balance)
         IN  IF w.exc # NoExc
             THEN [ret |-> FALSE, wallets |-> wallets]
             ELSE [ret |-> TRUE, wallets |-> wallets @@ (code :> w.balance)]

\* Portfolio.deposit_to_wallet: [ret, wallets]
deposit_to_wallet(wallets, code, amount) ==
    IF code \notin DOMAIN wallets
    THEN [ret |-> FALSE, wallets |-> wallets]
    ELSE LET w == deposit(code, wallets[code], amount)
         IN  [ret |-> w.exc = NoExc,
              wallets |-> [wallets EXCEPT ![code] = w.balance]]

\* Portfolio.withdraw_from_wallet: [ret, wallets]
withdraw_from_wallet(wallets, code, amount) ==
    IF code \notin DOMAIN wallets
    THEN [ret |-> FALSE, wallets |-> wallets]
    ELSE LET w == withdraw(code, wallets[code], amount)
         IN  [ret |-> w.exc = NoExc,
              wallets |-> [wallets EXCEPT ![code] = w.balance]]

\* Portfolio.transfer_between_wallets: [ret, wallets]
transfer_between_wallets(wallets, from_currency, to_currency, amount, exchange_rate) ==
    LET out == withdraw_from_wallet(wallets, from_currency, amount)
    IN  IF ~out.ret
        THEN [ret |-> FALSE, wallets |-> wallets]
        ELSE IF from_currency = to_currency
        THEN deposit_to_wallet(out.wallets, to_currency, amount)
        ELSE deposit_to_wallet(out.wallets, to_currency,
                               FMul(amount, exchange_rate))

EmptyWallets == [c \in {} |-> Zero]

(***************************************************************************)
(* PortfolioManager (core/utils.py): portfolios.json as user_id -> wallets.*)
(***************************************************************************)
NoPortfolios == [u \in {} |-> EmptyWallets]

\* PortfolioManager.get_portfolio_by_user_id: [found, wallets]
get_portfolio_by_user_id(doc, user_id) ==
    IF user_id \in DOMAIN doc
    THEN [found |-> TRUE, wallets |-> doc[user_id]]
    ELSE [found |-> FALSE, wallets |-> EmptyWallets]

\* PortfolioManager.update_portfolio: the document after the call
update_portfolio(doc, user_id, wallets) ==
    [u \in DOMAIN doc \cup {user_id} |->
        IF u = user_id THEN wallets ELSE doc[u]]

\* PortfolioManager.create_portfolio_for_user: the seeded wallets
seeded_wallets ==
    LET w1 == add_currency(EmptyWallets, "USD", Frac(1000, 1)).wallets
        w2 == add_currency(w1, "EUR", Zero).wallets
        w3 == add_currency(w2, "BTC", Zero).wallets
    IN  add_currency(w3, "ETH", Zero).wallets

create_portfolio_for_user(doc, user_id) ==
    [u \in DOMAIN doc \cup {user_id} |->
        IF u = user_id THEN seeded_wallets ELSE doc[u]]

(***************************************************************************)
(* RateManager (core/utils.py).  A pair key "FROM_TO" is <<FROM, TO>>.     *)
(***************************************************************************)
Absent == [absent |-> TRUE]

RateRec(rate, updated_at) == [rate |-> rate, updated_at |-> updated_at]

\* RateManager._default_rates, stamped at construction time t
default_rates(t) ==
    (<<"USD", "EUR">> :> RateRec(Frac(92, 100), t)) @@
    (<<"USD", "BTC">> :> RateRec(Frac(25, 1000000), t)) @@
    (<<"USD", "ETH">> :> RateRec(Frac(4, 10000), t)) @@
    (<<"EUR", "USD">> :> RateRec(Frac(109, 100), t)) @@
    (<<"EUR", "BTC">> :> RateRec(Frac(27, 1000000), t)) @@
    (<<"BTC", "USD">> :> RateRec(Frac(40000, 1), t)) @@
    (<<"BTC", "EUR">> :> RateRec(Frac(36800, 1), t)) @@
    (<<"ETH", "USD">> :> RateRec(Frac(2500, 1), t)) @@
    (<<"ETH", "EUR">> :> RateRec(Frac(2300, 1), t))

\* RateManager.load_rates: the document read; a missing file is created
\* from the defaults
load_rates(file, t) ==
    IF file = Absent
    THEN [source |-> "Default", last_refresh |-> t, rates |-> default_rates(t)]
    ELSE file

ZeroDivisionError == [type |-> "ZeroDivisionError"]

RateInfo(rate, updated_at) ==
    [found |-> TRUE, exc |-> NoExc, rate |-> rate, updated_at |-> updated_at]

NoRate == [found |-> FALSE, exc |-> NoExc]

RateRaised(exc) == [found |-> FALSE, exc |-> exc]

\* the later of two timestamps
Max(a, b) == IF a < b THEN b ELSE a

\* min(timestamp1, timestamp2)
Min(a, b) == IF a < b THEN a ELSE b

\* the rate of the reverse record handed back as it is
reverse_rate_as_stored(rate) == rate

\* 1.0 / rate_info["rate"] for the record of the reverse key
reverse_rate(rate) == FDiv(Frac(1, 1), rate)

\* RateManager.get_rate on the loaded document
RECURSIVE get_rate(_, _, _, _)
get_rate(doc, from_currency, to_currency, t) ==
    IF from_currency = to_currency
    THEN RateInfo(Frac(1, 1), t)
    ELSE IF <<from_currency, to_currency>> \in DOMAIN doc.rates
    THEN LET r == doc.rates[<<from_currency, to_currency>>]
         IN  RateInfo(r.rate, r.updated_at)
    ELSE IF <<to_currency, from_currency>> \in DOMAIN doc.rates
    THEN LET r == doc.rates[<<to_currency, from_currency>>]
         IN  IF r.rate = Zero
             THEN RateRaised(ZeroDivisionError)
             ELSE RateInfo(reverse_rate(r.rate), r.updated_at)
    ELSE IF from_currency # "USD" /\ to_currency # "USD"
    THEN LET rate1 == get_rate(doc, from_currency, "USD", t)
             rate2 == get_rate(doc, "USD", to_currency, t)
         IN  IF rate1.exc # NoExc THEN rate1
             ELSE IF rate2.exc # NoExc THEN rate2
             ELSE IF rate1.found /\ rate2.found
             THEN RateInfo(FMul(rate1.rate, rate2.rate),
                           Min(rate1.updated_at, rate2.updated_at))
             ELSE NoRate
    ELSE NoRate

\* an update that writes the record under the inverse key as well
update_rate_both_ways(file, from_currency, to_currency, rate, source, t) ==
    LET doc == load_rates(file, t)
        keys == {<<from_currency, to_currency>>,
                 <<to_currency, from_currency>>}
    IN  [source |-> source, last_refresh |-> t,
         rates |-> [k \in DOMAIN doc.rates \cup keys |->
                       IF k \in keys THEN RateRec(rate, t)
                       ELSE doc.rates[k]]]

\* RateManager.update_rate: the document after the call
update_rate(file, from_currency, to_currency, rate, source, t) ==
    LET doc == load_rates(file, t)
        key == <<from_currency, to_currency>>
    IN  [source |-> source, last_refresh |-> t,
         rates |-> [k \in DOMAIN doc.rates \cup {key} |->
                       IF k = key THEN RateRec(rate, t) ELSE doc.rates[k]]]

(***************************************************************************)
(* PortfolioUseCases (core/usecases.py).  A call returns                   *)
(*   exc   the exception raised, NoExc when it returned normally           *)
(*   ret   the cost or revenue returned                                    *)
(*   doc   portfolios.json after the call                                  *)
(*   file  rates.json after the call                                       *)
(*   mem   the wallets of the Portfolio object the call worked on          *)
(***************************************************************************)
Raised(exc, doc, file, mem) ==
    [exc |-> exc, ret |-> Zero, doc |-> doc, file |-> file, mem |-> mem]

\* the wallets after get_wallet(code), add_currency(code) if absent
with_wallet(wallets, code) ==
    IF code \in DOMAIN wallets THEN wallets
    ELSE add_currency(wallets, code, Zero).wallets

\* a call of withdraw or deposit on the wallet `code`; done says that it
\* returned
WalletCall(op, code, done) == [op |-> op, code |-> code, done |-> done]

\* the deposit of the except clause, made when the balance has changed
compensation(changed, src) ==
    IF changed THEN <<WalletCall("deposit", src, TRUE)>> ELSE <<>>

\* the except clause of the try block: the deposit into dst raised with the
\* wallets at m2; the withdrawn amount is put back when the balance of src
\* has changed
restore_funds(changed, m2, src, out, dst) ==
    [exc |-> ValueError,
     wallets |-> IF changed
                 THEN [m2 EXCEPT ![src] = deposit(src, m2[src], out).balance]
                 ELSE m2,
     steps |-> <<WalletCall("withdraw", src, TRUE),
                 WalletCall("deposit", dst, FALSE)>>
               \o compensation(changed, src)]

\* the try block after wallet.deposit(inc) on dst has returned w2
after_deposit(wallets, m1, src, out, dst, w2) ==
    IF w2.exc # NoExc
    THEN restore_funds(m1[src] # wallets[src], m1, src, out, dst)
    ELSE [exc |-> NoExc, wallets |-> [m1 EXCEPT ![dst] = w2.balance],
          steps |-> <<WalletCall("withdraw", src, TRUE),
                      WalletCall("deposit", dst, TRUE)>>]

\* the try block after the withdrawal from src has set the wallets to m1
deposit_funds(wallets, m1, src, out, dst, inc) ==
    after_deposit(wallets, m1, src, out, dst, deposit(dst, m1[dst], inc))

\* the try block after wallet.withdraw(out) on src has returned w1
after_withdraw(wallets, src, out, dst, inc, w1) ==
    IF w1.exc # NoExc
    THEN [exc |-> IF w1.exc.type = "InsufficientFundsError" THEN w1.exc
                  ELSE ValueError,
          wallets |-> wallets,
          steps |-> <<WalletCall("withdraw", src, FALSE)>>]
    ELSE deposit_funds(wallets, [wallets EXCEPT ![src] = w1.balance],
                       src, out, dst, inc)

\* the try block of buy_currency / sell_currency: withdraw `out` from
\* wallet src, deposit `inc` into wallet dst, compensate on failure;
\* steps are the wallet calls made, in order
move_funds(wallets, src, out, dst, inc) ==
    after_withdraw(wallets, src, out, dst, inc,
                   withdraw(src, wallets[src], out))

\* an end of buy_currency / sell_currency that saves the portfolio before
\* the error of the try block is raised
trade_outcome_saved(moved, ret, doc, file, user_id) ==
    [exc |-> moved.exc, ret |-> IF moved.exc # NoExc THEN Zero ELSE ret,
     doc |-> update_portfolio(doc, user_id, moved.wallets),
     file |-> file, mem |-> moved.wallets, steps |-> moved.steps]

\* the end of buy_currency / sell_currency: the error of the try block, or
\* the portfolio saved and the cost or revenue returned
trade_outcome(moved, ret, doc, file, user_id) ==
    IF moved.exc # NoExc
    THEN [steps |-> moved.steps]
         @@ Raised(moved.exc, doc, file, moved.wallets)
    ELSE [exc |-> NoExc, ret |-> ret,
          doc |-> update_portfolio(doc, user_id, moved.wallets),
          file |-> file, mem |-> moved.wallets, steps |-> moved.steps]

\* a cost computed as a product
purchase_cost_product(amount, rate) == FMul(amount, rate)

\* purchase_cost = amount / rate
purchase_cost(amount, rate) == FDiv(amount, rate)

\* a revenue computed as a product
sale_revenue_product(amount, rate) == FMul(amount, rate)

\* sale_revenue = amount / rate
sale_revenue(amount, rate) == FDiv(amount, rate)

\* PortfolioUseCases.buy_currency
buy_currency(doc, file, user_id, currency_code, amount, t) ==
    LET portfolio == get_portfolio_by_user_id(doc, user_id)
        loaded    == load_rates(file, t)
        rate_info == get_rate(loaded, "USD", currency_code, t)
        isUSD     == currency_code = "USD"
        file1     == IF isUSD THEN file ELSE loaded
        cost      == IF isUSD THEN amount
                     ELSE purchase_cost(amount, rate_info.rate)
        m1        == with_wallet(portfolio.wallets, "USD")
        m2        == with_wallet(m1, currency_code)
    IN  IF FLe(amount, Zero)
        THEN Raised(InvalidAmountError, doc, file, EmptyWallets)
        ELSE IF ~is_currency_registered(currency_code)
        THEN Raised(CurrencyNotFoundError, doc, file, EmptyWallets)
        ELSE IF ~portfolio.found
        THEN Raised(UserNotFoundError, doc, file, EmptyWallets)
        ELSE IF ~isUSD /\ rate_info.exc # NoExc
        THEN Raised(rate_info.exc, doc, file1, portfolio.wallets)
        ELSE IF ~isUSD /\ ~rate_info.found
        THEN Raised(CurrencyNotFoundError, doc, file1, portfolio.wallets)
        ELSE IF ~isUSD /\ FLe(rate_info.rate, Zero)
        THEN Raised(ValueError, doc, file1, portfolio.wallets)
        ELSE IF FLt(m1["USD"], cost)
        THEN Raised(InsufficientFundsError("USD", m1["USD"], cost),
                    doc, file1, m1)
        ELSE trade_outcome(move_funds(m2, "USD", cost, currency_code,
                                      amount),
                           cost, doc, file1, user_id)

\* PortfolioUseCases.sell_currency
sell_currency(doc, file, user_id, currency_code, amount, t) ==
    LET portfolio == get_portfolio_by_user_id(doc, user_id)
        loaded    == load_rates(file, t)
        rate_info == get_rate(loaded, "USD", currency_code, t)
        isUSD     == currency_code = "USD"
        file1     == IF isUSD THEN file ELSE loaded
        revenue   == IF isUSD THEN amount
                     ELSE sale_revenue(amount, rate_info.rate)
        m1        == with_wallet(portfolio.wallets, "USD")
    IN  IF FLe(amount, Zero)
        THEN Raised(InvalidAmountError, doc, file, EmptyWallets)
        ELSE IF ~is_currency_registered(currency_code)
        THEN Raised(CurrencyNotFoundError, doc, file, EmptyWallets)
        ELSE IF ~portfolio.found
        THEN Raised(UserNotFoundError, doc, file, EmptyWallets)
        ELSE IF currency_code \notin DOMAIN portfolio.wallets
        THEN Raised(InsufficientFundsError(currency_code, Zero, amount),
                    doc, file, portfolio.wallets)
        ELSE IF FLt(portfolio.wallets[currency_code], amount)
        THEN Raised(InsufficientFundsError(currency_code,
                        portfolio.wallets[currency_code], amount),
                    doc, file, portfolio.wallets)
        ELSE IF ~isUSD /\ rate_info.exc # NoExc
        THEN Raised(rate_info.exc, doc, file1, portfolio.wallets)
        ELSE IF ~isUSD /\ ~rate_info.found
        THEN Raised(CurrencyNotFoundError, doc, file1, portfolio.wallets)
        ELSE IF ~isUSD /\ FLe(rate_info.rate, Zero)
        THEN Raised(ValueError, doc, file1, portfolio.wallets)
        ELSE trade_outcome(move_funds(m1, currency_code, amount, "USD",
                                      revenue),
                           revenue, doc, file1, user_id)

(***************************************************************************)
(* User (core/models.py).  A User object is                                *)
(*   [user_id, username, hashed_password, salt, registration_date].        *)
(* sha256 is taken as collision free: a digest is the record of the bytes  *)
(* that were hashed, password bytes followed by salt bytes.                *)
(***************************************************************************)
None == [absent |-> TRUE]

\* a hash that ignores the password
hash_password_salt_only(password, salt) == [sha256 |-> salt]

\* User._hash_password
hash_password(password, salt) == [sha256 |-> password \o salt]

\* User._secure_hash_compare; a hexdigest always has 64 characters, so the
\* length test never decides
secure_hash_compare(hash1, hash2) == hash1 = hash2

\* str.strip on the user names tried
strip(s) ==
    CASE s = " alice " -> "alice"
      [] s = "   "     -> ""
      [] OTHER         -> s

\* User.create_new: [exc, user]; salt is what _generate_salt returned
create_new(username, password, salt, t) ==
    IF username = "" \/ strip(username) = ""
    THEN [exc |-> ValueError, user |-> None]
    ELSE IF Len(password) < 4
    THEN [exc |-> ValueError, user |-> None]
    ELSE [exc |-> NoExc,
          user |-> [user_id |-> t * 1000, username |-> strip(username),
                    hashed_password |-> hash_password(password, salt),
                    salt |-> salt, registration_date |-> t]]

\* User.verify_password
verify_password(self, password) ==
    secure_hash_compare(hash_password(password, self.salt),
                        self.hashed_password)

\* User.change_password: [exc, user]; new_salt is what _generate_salt
\* returned
change_password(self, new_password, new_salt) ==
    IF Len(new_password) < 4
    THEN [exc |-> ValueError, user |-> self]
    ELSE [exc |-> NoExc,
          user |-> [self EXCEPT
                      !.salt = new_salt,
                      !.hashed_password =
                          hash_password(new_password, new_salt)]]

\* User.username setter: [exc, user]
set_username(self, value) ==
    IF value = "" \/ strip(value) = ""
    THEN [exc |-> ValueError, user |-> self]
    ELSE [exc |-> NoExc, user |-> [self EXCEPT !.username = strip(value)]]

(***************************************************************************)
(* UserManager (core/utils.py): users.json as the sequence of its records. *)
(***************************************************************************)
RECURSIVE find_from(_, _, _, _)
\* the first record from position i on whose field equals value, or None
find_from(doc, i, field, value) ==
    IF i > Len(doc) THEN None
    ELSE IF doc[i][field] = value THEN doc[i]
    ELSE find_from(doc, i + 1, field, value)

\* UserManager.find_user_by_id
find_user_by_id(doc, user_id) == find_from(doc, 1, "user_id", user_id)

\* UserManager.find_user_by_username
find_user_by_username(doc, username) ==
    find_from(doc, 1, "username", username)

\* UserManager.add_user: [ret, doc]
add_user(doc, new_user) ==
    IF \E i \in 1..Len(doc) : doc[i].username = new_user.username
    THEN [ret |-> FALSE, doc |-> doc]
    ELSE [ret |-> TRUE, doc |-> Append(doc, new_user)]

\* UserManager.update_user: [ret, doc]; only the first record with the id
\* is replaced
manager_update_user(doc, updated_user) ==
    LET hits == {i \in 1..Len(doc) : doc[i].user_id = updated_user.user_id}
        first == CHOOSE i \in hits : \A j \in hits : i <= j
    IN  IF hits = {}
        THEN [ret |-> FALSE, doc |-> doc]
        ELSE [ret |-> TRUE, doc |-> [doc EXCEPT ![first] = updated_user]]

\* an id generator that hands out the id of the last user again
get_next_user_id_of_last(doc) ==
    IF Len(doc) = 0 THEN 1 ELSE doc[Len(doc)].user_id

\* UserManager.get_next_user_id
get_next_user_id(doc) ==
    IF Len(doc) = 0 THEN 1
    ELSE LET ids == {doc[i].user_id : i \in 1..Len(doc)}
         IN  (CHOOSE m \in ids : \A k \in ids : k <= m) + 1

(***************************************************************************)
(* UserUseCases (core/usecases.py).  A message is [kind, about].           *)
(***************************************************************************)
Message(kind, about) == [kind |-> kind, about |-> about]

\* str(AuthenticationError(reason))
AuthenticationError(reason) == Message("AuthenticationError", reason)

\* a new portfolio that already holds the wallets of create_portfolio_for_user
registered_wallets_seeded == seeded_wallets

\* Portfolio(user_id=user_id) of register_user: a portfolio without wallets
registered_wallets == EmptyWallets

\* a registration that stores no portfolio
new_user_portfolio_skipped(pdoc, user_id) == pdoc

\* portfolio_manager.update_portfolio(Portfolio(user_id=user_id))
new_user_portfolio(pdoc, user_id) ==
    update_portfolio(pdoc, user_id, registered_wallets)

\* UserUseCases.register_user: [success, message, user_id, users, portfolios]
register_user(doc, pdoc, username, password, salt, t) ==
    LET existing_user == find_user_by_username(doc, username)
        user_id == get_next_user_id(doc)
        new_user == [user_id |-> user_id, username |-> username,
                     hashed_password |-> hash_password(password, salt),
                     salt |-> salt, registration_date |-> t]
        added == add_user(doc, new_user)
        failed(msg) == [success |-> FALSE, message |-> msg,
                        user_id |-> None, users |-> doc,
                        portfolios |-> pdoc]
    IN  IF existing_user # None
        THEN failed(Message("username taken", username))
        ELSE IF Len(password) < 4
        THEN failed(Message("password too short", ""))
        ELSE IF added.ret
        THEN [success |-> TRUE,
              message |-> Message("registered", username),
              user_id |-> user_id, users |-> added.doc,
              portfolios |-> new_user_portfolio(pdoc, user_id)]
        ELSE failed(Message("save failed", username))

\* a comparison of digests that accepts any password
hash_matches_any(test_hash, stored) == TRUE

\* the comparison of the digests in authenticate_user
hash_matches(test_hash, stored) == test_hash = stored

\* UserUseCases.authenticate_user: [success, user, message]
authenticate_user(doc, username, password) ==
    LET found == find_user_by_username(doc, username)
    IN  IF found = None
        THEN [success |-> FALSE, user |-> None,
              message |-> AuthenticationError("user not found")]
        ELSE IF hash_matches(hash_password(password, found.salt),
                             found.hashed_password)
        THEN [success |-> TRUE, user |-> found,
              message |-> Message("logged in as", username)]
        ELSE [success |-> FALSE, user |-> None,
              message |-> AuthenticationError("wrong password")]

\* an update that does not look for the holder of the new name
update_user_unchecked(doc, new) ==
    LET existing_user == find_user_by_id(doc, new.user_id)
        updated == manager_update_user(doc, new)
    IN  IF existing_user = None
        THEN [success |-> FALSE,
              message |-> Message("update failed", ""),
              users |-> doc]
        ELSE [success |-> TRUE, message |-> Message("updated", ""),
              users |-> updated.doc]

\* UserUseCases.update_user: [success, message, users]
update_user(doc, new) ==
    LET existing_user == find_user_by_id(doc, new.user_id)
        user_with_same_name == find_user_by_username(doc, new.username)
        updated == manager_update_user(doc, new)
    IN  IF existing_user = None
        THEN [success |-> FALSE,
              message |-> Message("update failed", ""),
              users |-> doc]
        ELSE IF /\ existing_user.username # new.username
                /\ user_with_same_name # None
                /\ user_with_same_name.user_id # new.user_id
        THEN [success |-> FALSE,
              message |-> Message("username taken", new.username),
              users |-> doc]
        ELSE IF updated.ret
        THEN [success |-> TRUE, message |-> Message("updated", ""),
              users |-> updated.doc]
        ELSE [success |-> FALSE,
              message |-> Message("not updated", ""), users |-> doc]

(***************************************************************************)
(* PortfolioUseCases.get_user_portfolio and the CLI (cli/interface.py).    *)
(* A handler returns                                                       *)
(*   current_user  the session after the call                              *)
(*   printed       what it printed                                         *)
(*   called        the use case it invoked, "none" when it invoked none    *)
(*   users, portfolios, rates   the files after the call                   *)
(***************************************************************************)
\* PortfolioUseCases.get_user_portfolio: [success, file]
get_user_portfolio(pdoc, file, user_id, base_currency, t) ==
    LET portfolio == get_portfolio_by_user_id(pdoc, user_id)
        loaded    == load_rates(file, t)
        others    == DOMAIN portfolio.wallets \ {base_currency}
        rate(c)   == get_rate(loaded, c, base_currency, t)
    IN  IF ~is_currency_registered(base_currency)
        THEN [success |-> FALSE, file |-> file]
        ELSE IF ~portfolio.found
        THEN [success |-> FALSE, file |-> file]
        ELSE IF others = {}
        THEN [success |-> TRUE, file |-> file]
        ELSE [success |-> \A c \in others : rate(c).found,
              file |-> loaded]

\* the message of the CLI gate and of the gate of the shell loop
LoginFirstCli == "Oshibka: Snachala vypolnite login"

LoginFirstShell == "Snachala vypolnite login"

\* a gate that lets everybody through
check_auth_open(session) == TRUE

\* CLI._check_auth
check_auth(session) == session # None

Handled(session, printed, called, udoc, pdoc, file) ==
    [current_user |-> session, printed |-> printed, called |-> called,
     users |-> udoc, portfolios |-> pdoc, rates |-> file]

\* CLI.handle_register / _process_shell_register
handle_register(session, udoc, pdoc, file, username, password, salt, t) ==
    LET out == register_user(udoc, pdoc, username, password, salt, t)
    IN  Handled(session, out.message.kind, "register_user",
                out.users, out.portfolios, file)

\* a login handler that drops the session when the login fails
handle_login_cleared(session, udoc, pdoc, file, username, password) ==
    LET out == authenticate_user(udoc, username, password)
    IN  Handled(IF out.success
                THEN [id |-> out.user.user_id,
                      username |-> out.user.username,
                      user_object |-> out.user]
                ELSE None,
                out.message.kind, "authenticate_user", udoc, pdoc, file)

\* CLI.handle_login / _process_shell_login
handle_login(session, udoc, pdoc, file, username, password) ==
    LET out == authenticate_user(udoc, username, password)
    IN  Handled(IF out.success
                THEN [id |-> out.user.user_id,
                      username |-> out.user.username,
                      user_object |-> out.user]
                ELSE session,
                out.message.kind, "authenticate_user", udoc, pdoc, file)

\* what handle_show_portfolio prints for the result out of the use case
show_result(session, udoc, pdoc, out) ==
    Handled(session, IF out.success THEN "portfolio" ELSE "Oshibka",
            "get_user_portfolio", udoc, pdoc, out.file)

\* CLI.handle_show_portfolio / _process_shell_show_portfolio
handle_show_portfolio(session, udoc, pdoc, file, base, t) ==
    IF ~check_auth(session)
    THEN Handled(session, LoginFirstCli, "none", udoc, pdoc, file)
    ELSE IF session = None
    THEN Handled(session, "TypeError", "none", udoc, pdoc, file)
    ELSE show_result(session, udoc, pdoc,
                     get_user_portfolio(pdoc, file, session.id, base, t))

\* what handle_buy / handle_sell print for the result out of the use case
trade_result(session, udoc, done, called, out) ==
    Handled(session, IF out.exc = NoExc THEN done ELSE out.exc.type,
            called, udoc, out.doc, out.file)

\* CLI.handle_buy / _process_shell_buy
handle_buy(session, udoc, pdoc, file, currency, amount, t) ==
    IF ~check_auth(session)
    THEN Handled(session, LoginFirstCli, "none", udoc, pdoc, file)
    ELSE IF session = None
    THEN Handled(session, "TypeError", "none", udoc, pdoc, file)
    ELSE trade_result(session, udoc, "bought", "buy_currency",
                      buy_currency(pdoc, file, session.id, currency,
                                   amount, t))

\* CLI.handle_sell / _process_shell_sell
handle_sell(session, udoc, pdoc, file, currency, amount, t) ==
    IF ~check_auth(session)
    THEN Handled(session, LoginFirstCli, "none", udoc, pdoc, file)
    ELSE IF session = None
    THEN Handled(session, "TypeError", "none", udoc, pdoc, file)
    ELSE trade_result(session, udoc, "sold", "sell_currency",
                      sell_currency(pdoc, file, session.id, currency,
                                    amount, t))

\* one command of the loop of CLI.handle_shell; cmd is the first word
shell_command(session, udoc, pdoc, file, cmd, currency, amount, t) ==
    IF cmd = "logout"
    THEN Handled(None,
                 IF session # None THEN "logged out"
                 ELSE "not logged in",
                 "none", udoc, pdoc, file)
    ELSE IF session = None
    THEN Handled(session, LoginFirstShell, "none", udoc, pdoc, file)
    ELSE IF cmd = "show-portfolio"
    THEN handle_show_portfolio(session, udoc, pdoc, file, "USD", t)
    ELSE IF cmd = "buy"
    THEN handle_buy(session, udoc, pdoc, file, currency, amount, t)
    ELSE handle_sell(session, udoc, pdoc, file, currency, amount, t)

(***************************************************************************)
(* RateUseCases (core/usecases.py).  get_exchange_rate returns             *)
(*   success, message   the first and the last item of the tuple           *)
(*   data               the rate_data dictionary, None on failure          *)
(*   file               rates.json after the call                          *)
(* writable says whether rates.json can be written during the call.        *)
(***************************************************************************)
\* settings.get("rates_ttl_seconds", 300)
rates_ttl_seconds == 300

ApiRequestError == [type |-> "ApiRequestError"]

\* code.strip().upper() / code.upper().strip() on the codes the model uses
upper_strip(code) ==
    IF code = "eur" THEN "EUR"
    ELSE IF code = " usd" THEN "USD"
    ELSE code

\* the table of RateUseCases._fetch_rate_from_external
stub_rates ==
    (<<"USD", "EUR">> :> Frac(92, 100)) @@
    (<<"EUR", "USD">> :> Frac(109, 100)) @@
    (<<"USD", "BTC">> :> Frac(25, 1000000)) @@
    (<<"BTC", "USD">> :> Frac(40000, 1)) @@
    (<<"USD", "ETH">> :> Frac(4, 10000)) @@
    (<<"ETH", "USD">> :> Frac(2500, 1)) @@
    (<<"USD", "RUB">> :> Frac(915, 10)) @@
    (<<"RUB", "USD">> :> Frac(109, 10000)) @@
    (<<"EUR", "BTC">> :> Frac(27, 1000000)) @@
    (<<"BTC", "EUR">> :> Frac(36800, 1)) @@
    (<<"EUR", "ETH">> :> Frac(43, 100000)) @@
    (<<"ETH", "EUR">> :> Frac(2300, 1)) @@
    (<<"USD", "GBP">> :> Frac(79, 100)) @@
    (<<"GBP", "USD">> :> Frac(127, 100)) @@
    (<<"USD", "JPY">> :> Frac(150, 1)) @@
    (<<"JPY", "USD">> :> Frac(67, 10000)) @@
    (<<"BTC", "ETH">> :> Frac(16, 1)) @@
    (<<"ETH", "BTC">> :> Frac(625, 10000))

ExternalCurrencies == {"USD", "EUR", "BTC", "ETH", "RUB", "GBP", "JPY"}

Fetched(rate) == [exc |-> NoExc, some |-> TRUE, rate |-> rate]

FetchedNone == [exc |-> NoExc, some |-> FALSE, rate |-> Zero]

\* RateUseCases._fetch_rate_from_external: [exc, some, rate]
fetch_rate_from_external(from_currency, to_currency) ==
    IF <<from_currency, to_currency>> \in DOMAIN stub_rates
    THEN Fetched(stub_rates[<<from_currency, to_currency>>])
    ELSE IF <<to_currency, from_currency>> \in DOMAIN stub_rates
    THEN Fetched(FDiv(Frac(1, 1), stub_rates[<<to_currency, from_currency>>]))
    ELSE IF \/ from_currency \notin ExternalCurrencies
            \/ to_currency \notin ExternalCurrencies
    THEN [exc |-> ApiRequestError, some |-> FALSE, rate |-> Zero]
    ELSE FetchedNone

\* `if rate:` on what _fetch_rate_from_external returned
truthy(fetched) == fetched.some /\ fetched.rate # Zero

\* a freshness test that accepts every age
is_fresh_any_age(age, ttl) == TRUE

\* is_fresh = age <= timedelta(seconds=rates_ttl)
is_fresh_at(age, ttl) == age <= ttl

RateFailure(kind, file) ==
    [success |-> FALSE, data |-> None, message |-> kind, file |-> file]

RateData(from_currency, to_currency, rate, updated_at, is_fresh, file) ==
    [success |-> TRUE,
     data |-> [from_currency |-> from_currency, to_currency |-> to_currency,
               rate |-> rate,
               reverse_rate |-> IF rate # Zero THEN FDiv(Frac(1, 1), rate)
                                ELSE Zero,
               updated_at |-> updated_at, is_fresh |-> is_fresh],
     message |-> "rate received", file |-> file]

\* the branch of get_exchange_rate for a rate get_rate found
stored_rate(file, from_currency, to_currency, t, writable, rate_info, fetched) ==
    IF is_fresh_at(t - rate_info.updated_at, rates_ttl_seconds)
    THEN RateData(from_currency, to_currency, rate_info.rate,
                  rate_info.updated_at, TRUE, file)
    ELSE IF fetched.exc = NoExc /\ truthy(fetched) /\ writable
    THEN RateData(from_currency, to_currency, fetched.rate, t, TRUE,
                  update_rate(file, from_currency, to_currency,
                              fetched.rate, "ExternalAPI", t))
    ELSE RateData(from_currency, to_currency, rate_info.rate,
                  rate_info.updated_at, FALSE, file)

\* the branch of get_exchange_rate for a pair get_rate did not find
missing_rate(file, from_currency, to_currency, t, writable, fetched) ==
    IF fetched.exc = NoExc /\ truthy(fetched) /\ writable
    THEN RateData(from_currency, to_currency, fetched.rate, t, TRUE,
                  update_rate(file, from_currency, to_currency,
                              fetched.rate, "ExternalAPI", t))
    ELSE RateFailure("ApiRequestError", file)

\* get_exchange_rate once get_rate has answered rate_info
rate_outcome(file, from_currency, to_currency, t, writable, rate_info) ==
    IF rate_info.exc # NoExc
    THEN RateFailure(rate_info.exc.type, file)
    ELSE IF rate_info.found
    THEN stored_rate(file, from_currency, to_currency, t, writable, rate_info,
                     fetch_rate_from_external(from_currency, to_currency))
    ELSE missing_rate(file, from_currency, to_currency, t, writable,
                      fetch_rate_from_external(from_currency, to_currency))

\* get_exchange_rate on two upper-case codes of the registry
rate_of_pair(file, from_currency, to_currency, t, writable) ==
    IF from_currency = to_currency
    THEN rate_outcome(file, from_currency, to_currency, t, writable,
                      RateInfo(Frac(1, 1), t))
    ELSE IF file = Absent /\ ~writable
    THEN RateFailure("OSError", file)
    ELSE rate_outcome(load_rates(file, t), from_currency, to_currency, t,
                      writable,
                      get_rate(load_rates(file, t), from_currency,
                               to_currency, t))

\* RateUseCases.get_exchange_rate
get_exchange_rate(file, from_currency, to_currency, t, writable) ==
    IF \/ ~is_currency_registered(upper_strip(from_currency))
       \/ ~is_currency_registered(upper_strip(to_currency))
    THEN RateFailure("CurrencyNotFoundError", file)
    ELSE rate_of_pair(file, upper_strip(from_currency),
                      upper_strip(to_currency), t, writable)

(***************************************************************************)
(* The try/except frame of the use cases (core/usecases.py).  The body of  *)
(* a use case ends in                                                      *)
(*   escaped    the type of the exception that left the try block, "none"  *)
(*              when the body returned                                     *)
(*   swallowed  the type of an exception caught inside the body, "none"    *)
(*   success, message   what the body returned                             *)
(* and the call ends in [raised, success, message, inner]: raised is what  *)
(* reaches the caller, inner the exception that occurred during the call.  *)
(* fault names the one thing that goes wrong in the environment of a call: *)
(*   "type"   an argument that is not a string (None)                      *)
(*   "read"   the file cannot be opened for reading (PermissionError)      *)
(*   "write"  users.json / rates.json cannot be opened for writing         *)
(*   "write_portfolios"   portfolios.json cannot be opened for writing     *)
(***************************************************************************)
Faults == {"none", "type", "read", "write", "write_portfolios"}

\* the exception classes met in the use cases, all derived from Exception
ExceptionTypes ==
    {"AuthenticationError", "UserNotFoundError", "CurrencyNotFoundError",
     "ApiRequestError", "ZeroDivisionError", "TypeError", "AttributeError",
     "OSError"}

\* a clause that catches the exceptions of the project only
except_project_errors(type) ==
    type \in {"AuthenticationError", "UserNotFoundError",
              "CurrencyNotFoundError", "ApiRequestError"}

\* `except Exception as e`
except_Exception(type) == type \in ExceptionTypes

BodyReturned(success, message, swallowed) ==
    [escaped |-> "none", swallowed |-> swallowed, success |-> success,
     message |-> message]

BodyRaised(type) ==
    [escaped |-> type, swallowed |-> "none", success |-> FALSE,
     message |-> ""]

\* the except clauses that close every use case: each returns
\* (False, ..., message built from the exception)
use_case_call(body) ==
    IF body.escaped = "none"
    THEN [raised |-> "none", success |-> body.success,
          message |-> body.message, inner |-> body.swallowed]
    ELSE IF except_Exception(body.escaped)
    THEN [raised |-> "none", success |-> FALSE,
          message |-> "Oshibka: " \o body.escaped, inner |-> body.escaped]
    ELSE [raised |-> body.escaped, success |-> FALSE, message |-> "",
          inner |-> body.escaped]

\* the body of register_user; out is register_user without a fault
register_body(doc, username, fault, out) ==
    IF fault = "read" THEN BodyRaised("OSError")
    ELSE IF find_user_by_username(doc, username) # None
    THEN BodyReturned(FALSE, out.message.kind, "none")
    ELSE IF fault = "type" THEN BodyRaised("TypeError")
    ELSE IF ~out.success THEN BodyReturned(FALSE, out.message.kind, "none")
    ELSE IF fault \in {"write", "write_portfolios"} THEN BodyRaised("OSError")
    ELSE BodyReturned(TRUE, out.message.kind, "none")

\* users.json after register_user
register_users(doc, fault, body, out) ==
    IF body.success \/ (body.escaped = "OSError" /\ fault = "write_portfolios")
    THEN out.users
    ELSE doc

\* portfolios.json after register_user
register_portfolios(pdoc, body, out) ==
    IF body.success THEN out.portfolios ELSE pdoc

\* the body of authenticate_user; out is authenticate_user without a fault
authenticate_body(doc, username, fault, out) ==
    IF fault = "read" THEN BodyRaised("OSError")
    ELSE IF find_user_by_username(doc, username) = None
    THEN BodyRaised("AuthenticationError")
    ELSE IF fault = "type" THEN BodyRaised("AttributeError")
    ELSE IF ~out.success THEN BodyRaised("AuthenticationError")
    ELSE BodyReturned(TRUE, out.message.kind, "none")

\* the body of update_user; out is update_user without a fault
update_user_body(doc, new, fault, out) ==
    IF fault = "read" THEN BodyRaised("OSError")
    ELSE IF find_user_by_id(doc, new.user_id) = None
    THEN BodyRaised("UserNotFoundError")
    ELSE IF ~out.success THEN BodyReturned(FALSE, out.message.kind, "none")
    ELSE IF fault = "write" THEN BodyRaised("OSError")
    ELSE BodyReturned(TRUE, out.message.kind, "none")

\* the exception the refresh of a stale rate ran into and passed over
refresh_swallowed(out, fetched, writable) ==
    IF ~out.success \/ out.data.is_fresh THEN "none"
    ELSE IF fetched.exc # NoExc THEN fetched.exc.type
    ELSE IF truthy(fetched) /\ ~writable THEN "OSError"
    ELSE "none"

\* the body of get_exchange_rate; out is get_exchange_rate on the codes
get_exchange_rate_body(from_currency, to_currency, fault, out, fetched) ==
    IF fault = "type" THEN BodyRaised("AttributeError")
    ELSE IF /\ fault = "read"
            /\ is_currency_registered(from_currency)
            /\ is_currency_registered(to_currency)
            /\ from_currency # to_currency
    THEN BodyRaised("OSError")
    ELSE IF ~out.success THEN BodyRaised(out.message)
    ELSE BodyReturned(TRUE, out.message,
                      refresh_swallowed(out, fetched, fault # "write"))

\* get_rate raises for a wallet of the portfolio
portfolio_rate_raises(pdoc, file, user_id, base_currency, t) ==
    LET portfolio == get_portfolio_by_user_id(pdoc, user_id)
    IN  /\ is_currency_registered(base_currency)
        /\ \E c \in DOMAIN portfolio.wallets \ {base_currency} :
              get_rate(load_rates(file, t), c, base_currency, t).exc # NoExc

\* the body of get_user_portfolio; out is get_user_portfolio without a fault
get_user_portfolio_body(base_currency, fault, out, rate_raises) ==
    IF fault = "type" THEN BodyRaised("AttributeError")
    ELSE IF ~is_currency_registered(base_currency)
    THEN BodyReturned(FALSE, "CurrencyNotFoundError", "none")
    ELSE IF fault = "read" THEN BodyRaised("OSError")
    ELSE IF rate_raises THEN BodyRaised("ZeroDivisionError")
    ELSE BodyReturned(out.success,
                      IF out.success THEN "portfolio loaded"
                      ELSE "not loaded", "none")

(***************************************************************************)
(* Parser service (parser_service/).  A pair key "FROM_TO" is <<FROM, TO>>,*)
(* the id of a history record "FROM_TO_<timestamp>" is <<FROM, TO, t>>.    *)
(* The history file is Absent or [data |-> id -> record].                   *)
(* What a client's fetch_rates does when it is invoked is                  *)
(*   [exc, rates]   the exception it raises, or the pairs it returns       *)
(***************************************************************************)
Clients == <<"CoinGecko", "ExchangeRate-API">>

\* no source_filter: None or the empty string
NoFilter == ""

\* source_filter.lower() on the filters the model uses
lower(s) ==
    IF s \in {"CoinGecko", "COINGECKO", "coingecko"} THEN "coingecko"
    ELSE IF s \in {"ExchangeRate", "exchangerate"} THEN "exchangerate"
    ELSE s

\* a selection that ignores the filter
clients_to_use_all(source_filter) == Clients

\* clients_to_use of run_update
clients_to_use(source_filter) ==
    IF source_filter = NoFilter THEN Clients
    ELSE IF lower(source_filter) = "coingecko"
    THEN SelectSeq(Clients, LAMBDA c : c = "CoinGecko")
    ELSE IF lower(source_filter) = "exchangerate"
    THEN SelectSeq(Clients, LAMBDA c : c = "ExchangeRate-API")
    ELSE Clients

NoRates == [p \in {} |-> Zero]

FetchOk(pairs) == [exc |-> NoExc, rates |-> pairs]

FetchError(exc) == [exc |-> exc, rates |-> NoRates]

\* ExchangeRateApiClient.fetch_rates: response is [exc, rates] with the
\* quotes of the currencies per USD
fiat_fetch_rates(api_key, response) ==
    IF api_key = "" THEN FetchOk(NoRates)
    ELSE IF response.exc # NoExc THEN response
    ELSE FetchOk([p \in DOMAIN response.rates |->
                     IF response.rates[p] # Zero
                     THEN FDiv(Frac(1, 1), response.rates[p])
                     ELSE Zero])

\* RatesStorage.format_rate_for_history for the pairs of one client
history_records(pairs, source, t) ==
    [id \in {<<p[1], p[2], t>> : p \in DOMAIN pairs} |->
        [id |-> id, from_currency |-> id[1], to_currency |-> id[2],
         rate |-> pairs[<<id[1], id[2]>>], timestamp |-> t,
         source |-> source]]

\* the loop of run_update stopping at the first client that fails
next_clients_until_error(clients, out) ==
    IF out.exc # NoExc THEN <<>> ELSE Tail(clients)

\* the clients the loop of run_update goes on with after the first of them
next_clients(clients, out) == Tail(clients)

\* one turn of the loop of run_update: client name answered out
after_client(name, out, t, acc) ==
    IF out.exc = NoExc
    THEN [all_rates |-> out.rates @@ acc.all_rates,
          historical_records |->
              history_records(out.rates, name, t) @@ acc.historical_records,
          sources |-> (name :> [status |-> "success",
                                rates_count |-> Cardinality(DOMAIN out.rates),
                                rates |-> DOMAIN out.rates]) @@ acc.sources,
          errors |-> acc.errors,
          invoked |-> Append(acc.invoked, name)]
    ELSE [all_rates |-> acc.all_rates,
          historical_records |-> acc.historical_records,
          sources |-> (name :> [status |-> "error", rates_count |-> 0,
                                rates |-> {}]) @@ acc.sources,
          errors |-> Append(acc.errors, name),
          invoked |-> Append(acc.invoked, name)]

NoRecords == [id \in {} |-> Zero]

NoSources == [c \in {} |-> Zero]

\* the loop over clients_to_use; fetched maps a client to what its
\* fetch_rates does
RECURSIVE poll(_, _, _, _)
poll(clients, fetched, t, acc) ==
    IF clients = <<>> THEN acc
    ELSE poll(next_clients(clients, fetched[Head(clients)]), fetched, t,
              after_client(Head(clients), fetched[Head(clients)], t, acc))

\* the document save_current_rates builds
current_rates_document(pairs, source, t) ==
    [source |-> source, last_refresh |-> t,
     rates |-> [p \in DOMAIN pairs |-> RateRec(pairs[p], t)]]

\* a save that keeps the pairs of the old document
saved_document_merged(old, data) ==
    IF old = Absent THEN data
    ELSE [data EXCEPT !.rates = data.rates @@ old.rates]

\* the file after db.save_json(filename, data) replaced it
saved_document(old, data) == data

\* a merge in which the incoming record wins
merge_history_incoming(history_data, records) == records @@ history_data

\* the loop of save_to_history: only ids not yet present are added
merge_history(history_data, records) == history_data @@ records

\* RatesStorage._load_history: the cached document, else the file, else
\* the default of load_json when the file cannot be read or parsed
load_history(entry, file, readable) ==
    IF entry # None THEN entry.data
    ELSE IF file = Absent THEN NoRecords
    ELSE IF readable THEN file.data
    ELSE NoRecords

\* the cache entry after _load_history; a failed read is not cached
cache_after_load(entry, file, readable) ==
    IF entry # None THEN entry
    ELSE IF file = Absent THEN [data |-> NoRecords]
    ELSE IF readable THEN [data |-> file.data]
    ELSE None

\* RatesStorage.save_to_history: [ret, file, entry]; a cached document
\* that is not empty is the object the loop adds the records to
save_to_history(entry, file, records, disk_ok, readable) ==
    IF disk_ok
    THEN [ret |-> TRUE,
          file |-> [data |-> merge_history(
                                 load_history(entry, file, readable),
                                 records)],
          entry |-> [data |-> merge_history(
                                  load_history(entry, file, readable),
                                  records)]]
    ELSE [ret |-> FALSE, file |-> file,
          entry |-> IF load_history(entry, file, readable) = NoRecords
                    THEN cache_after_load(entry, file, readable)
                    ELSE [data |-> merge_history(
                                       load_history(entry, file, readable),
                                       records)]]

\* the results of run_update and the files after it
update_results(polled, rates_file, saved, disk_ok) ==
    [sources |-> polled.sources,
     total_rates |-> Cardinality(DOMAIN polled.all_rates),
     errors |-> IF polled.all_rates = NoRates \/ disk_ok THEN polled.errors
                ELSE polled.errors \o <<"save_current_rates",
                                        "save_to_history">>,
     success |-> /\ polled.errors = <<>>
                 /\ (polled.all_rates = NoRates \/ disk_ok),
     invoked |-> polled.invoked, all_rates |-> polled.all_rates,
     rates |-> rates_file, history |-> saved.file, entry |-> saved.entry]

\* the part of run_update after the loop over the clients
store_update(polled, rates_file, entry, history_file, t, disk_ok, readable) ==
    IF polled.all_rates = NoRates
    THEN update_results(polled, rates_file,
                        [file |-> history_file, entry |-> entry], disk_ok)
    ELSE update_results(
             polled,
             IF disk_ok
             THEN saved_document(rates_file,
                      current_rates_document(polled.all_rates,
                                             "ParserService", t))
             ELSE rates_file,
             save_to_history(entry, history_file,
                             polled.historical_records, disk_ok, readable),
             disk_ok)

\* RatesUpdater.run_update
run_update(source_filter, fetched, rates_file, entry, history_file, t, disk_ok, readable) ==
    store_update(poll(clients_to_use(source_filter), fetched, t,
                      [all_rates |-> NoRates,
                       historical_records |-> NoRecords,
                       sources |-> NoSources, errors |-> <<>>,
                       invoked |-> <<>>]),
                 rates_file, entry, history_file, t, disk_ok, readable)

(***************************************************************************)
(* DatabaseManager (infra/database.py), one filename, several threads.     *)
(*   cache    the entry of the filename in _cache: None or [data]          *)
(*   dir      the directory: inode of filepath (target) and of             *)
(*            filepath + '.tmp' (tmp), 0 when the path does not exist      *)
(*   inodes   inode -> the chunks written to it                            *)
(*   lock     the thread holding DatabaseManager._lock, 0 when free        *)
(*   threads  thread -> [pc, op, data, fd, ret, cleared, after_save]       *)
(*   saves    history: the documents os.replace has installed (replaced)   *)
(*            and those whose save_json returned True (returned)           *)
(***************************************************************************)
Threads == {1, 2}

Docs == {"D1", "D2"}

\* the documents update_json builds: the keys an updater_func has set
KeyDocs == {"{a}", "{b}", "{a, b}"}

Documents == Docs \cup KeyDocs

\* the default of load_json: {}
Default == "{}"

\* number of write calls json.dump needs for a document
NChunks == 2

MaxInodes == 4

\* json.dump: the chunks written for a document
dumps(d) == [k \in 1..NChunks |-> [doc |-> d, part |-> k]]

\* json.load: [exc, data]
loads(content) ==
    IF \E d \in Documents : content = dumps(d)
    THEN [exc |-> NoExc,
          data |-> (CHOOSE d \in Documents : content = dumps(d))]
    ELSE [exc |-> [type |-> "JSONDecodeError"], data |-> Default]

Entry(d) == [data |-> d]

Returned(v) == [value |-> v]

KeyError == [type |-> "KeyError"]

\*   upd   the part of update_json the thread is in: "load", "save" or "none"
\*   key   the key the updater_func of its update_json sets
\*   read  the document its update_json loaded
IdleThread ==
    [pc |-> "idle", op |-> "none", data |-> Default, fd |-> 0, ret |-> None,
     cleared |-> FALSE, after_save |-> FALSE, upd |-> "none", key |-> "",
     read |-> Default]

\* the inodes a path or an open file refers to
Referenced(d, th) ==
    ({d.target, d.tmp} \cup {th[t].fd : t \in Threads}) \ {0}

\* an inode nothing refers to
Fresh(d, th) ==
    CHOOSE i \in 1..MaxInodes :
        /\ i \notin Referenced(d, th)
        /\ \A j \in 1..MaxInodes : j \notin Referenced(d, th) => i <= j

\* the file system drops the content of an inode nothing refers to
Sweep(ino, d, th) ==
    [i \in 1..MaxInodes |-> IF i \in Referenced(d, th) THEN ino[i] ELSE <<>>]

\* where a thread goes on when load_json or save_json returns: back into
\* update_json when called from there
Continue(th) ==
    IF th.upd = "load" THEN "update_apply"
    ELSE IF th.upd = "save" THEN "update_return"
    ELSE "idle"

\* the thread finishes its load_json or save_json with ret
Finish(t, ret) ==
    threads' = [threads EXCEPT ![t].pc = Continue(threads[t]),
                               ![t].ret = ret, ![t].fd = 0]

Goto(t, pc) == threads' = [threads EXCEPT ![t].pc = pc]

(***************************************************************************)
(* The groups of variables and their state before anything has run.        *)
(***************************************************************************)
userVars == <<users, user>>

cliVars == <<current_user>>

svcVars == <<memo, scheduler, client>>

dbVars == <<cache, dir, inodes, lock, threads, saves, exchange_rates>>

tradeVars == <<portfolios, rates, now>>

UsersIdle == users = <<>> /\ user = None

CliIdle == current_user = None

\* no function wrapped by cache_result
NoMemo == [ttl_seconds |-> 0, cache |-> <<>>]

\* RatesScheduler.__init__: no thread, not running, no update planned
\*   workers      the threads started so far, scheduler_thread the last
\*   joining      the time stop() began to join scheduler_thread, or None
\*   last_update  the time the last scheduled update began, or None
\* a time that can be None is kept as [at |-> t]
\*   overlap      a thread was started while an earlier one was alive
\*   calls        the number of start() and stop() calls made
NewScheduler ==
    [is_running |-> FALSE, next_update_time |-> None, workers |-> <<>>,
     joining |-> None, last_update |-> None, overlap |-> FALSE,
     calls |-> 0]

\* BaseApiClient.__init__ (parser_service/api_clients.py), times in seconds
\*   clock   time.time(); the object is built at StartTime
\*   issued  the times at which requests.get was called, the last two
\*   last    the outcome of the last request
StartTime == 1

NewClient ==
    [last_request_time |-> 0, request_delay |-> 1, clock |-> StartTime,
     issued |-> <<>>, last |-> "none"]

SvcIdle == memo = NoMemo /\ scheduler = NewScheduler /\ client = NewClient

DbIdle ==
    /\ cache = None
    /\ dir = [target |-> 0, tmp |-> 0]
    /\ inodes = [i \in 1..MaxInodes |-> <<>>]
    /\ lock = 0
    /\ threads = [t \in Threads |-> IdleThread]
    /\ saves = [replaced |-> {}, returned |-> {}]
    /\ exchange_rates = Absent

(***************************************************************************)
(* Inputs and bounds of the wallet-level specification.                    *)
(***************************************************************************)
\* largest balance the wallet-level model lets a wallet reach, in cents
MaxCents == 130

WalletCodes == {"USD", "BTC", "DOGE"}

WalletAmounts ==
    {Frac(123456789, 1000000000), Frac(6, 10), Frac(4, 1000),
     Frac(0, 1), Frac(-1, 1)}

TransferAmounts == {Frac(6, 10), Frac(4, 1000), Frac(0, 1)}

TransferRates == {Frac(1, 1), Frac(1, 40000)}

\* no wallet grows beyond cap
Bounded(old, new, cap) ==
    \A c \in DOMAIN new :
        IF FLe(new[c], cap) THEN TRUE
        ELSE c \in DOMAIN old /\ FLe(new[c], old[c])

\* balance of a wallet, 0 when the portfolio has no such wallet
BalanceOf(wallets, code) ==
    IF code \in DOMAIN wallets THEN wallets[code] ELSE Zero

\* what the wallet-level model remembers of the last call
WalletRes(op, code, to, amount, exc, ret) ==
    [op |-> op, code |-> code, to |-> to, amount |-> amount, exc |-> exc,
     ret |-> ret, before |-> BalanceOf(pf.wallets, code)]

AppIdle ==
    /\ portfolios = NoPortfolios
    /\ rates = Absent
    /\ now = 0
    /\ UsersIdle
    /\ CliIdle
    /\ SvcIdle
    /\ DbIdle

InitWallet ==
    /\ pf = [user_id |-> 1, wallets |-> EmptyWallets]
    /\ res = [op |-> "init", code |-> "", to |-> "", amount |-> Zero,
              exc |-> NoExc, ret |-> TRUE, before |-> Zero]
    /\ AppIdle

\* portfolio.add_currency(code, initial_balance)
AddCurrency(code, initial_balance, cap) ==
    LET out == add_currency(pf.wallets, code, initial_balance)
    IN  /\ Bounded(pf.wallets, out.wallets, cap)
        /\ pf' = [pf EXCEPT !.wallets = out.wallets]
        /\ res' = WalletRes("add_currency", code, "", initial_balance,
                            NoExc, out.ret)
        /\ UNCHANGED <<tradeVars, userVars, cliVars, svcVars, dbVars>>

\* portfolio.get_wallet(code).deposit(amount)
Deposit(code, amount, cap) ==
    /\ code \in DOMAIN pf.wallets
    /\ LET w == deposit(code, pf.wallets[code], amount)
       IN  /\ Bounded(pf.wallets, [pf.wallets EXCEPT ![code] = w.balance],
                      cap)
           /\ pf' = [pf EXCEPT !.wallets[code] = w.balance]
           /\ res' = WalletRes("deposit", code, "", amount, w.exc,
                               w.exc = NoExc)
    /\ UNCHANGED <<tradeVars, userVars, cliVars, svcVars, dbVars>>

\* portfolio.get_wallet(code).withdraw(amount)
Withdraw(code, amount) ==
    /\ code \in DOMAIN pf.wallets
    /\ LET w == withdraw(code, pf.wallets[code], amount)
       IN  /\ pf' = [pf EXCEPT !.wallets[code] = w.balance]
           /\ res' = WalletRes("withdraw", code, "", amount, w.exc,
                               w.exc = NoExc)
    /\ UNCHANGED <<tradeVars, userVars, cliVars, svcVars, dbVars>>

\* portfolio.transfer_between_wallets(from, to, amount, exchange_rate)
Transfer(from_currency, to_currency, amount, exchange_rate, cap) ==
    LET out == transfer_between_wallets(pf.wallets, from_currency,
                                        to_currency, amount, exchange_rate)
    IN  /\ Bounded(pf.wallets, out.wallets, cap)
        /\ pf' = [pf EXCEPT !.wallets = out.wallets]
        /\ res' = WalletRes("transfer", from_currency, to_currency, amount,
                            NoExc, out.ret)
        /\ UNCHANGED <<tradeVars, userVars, cliVars, svcVars, dbVars>>

WalletCap == Frac(MaxCents, 100)

NextWallet ==
    \/ \E c \in WalletCodes, a \in WalletAmounts : AddCurrency(c, a, WalletCap)
    \/ \E c \in WalletCodes, a \in WalletAmounts : Deposit(c, a, WalletCap)
    \/ \E c \in WalletCodes, a \in WalletAmounts : Withdraw(c, a)
    \/ \E c1, c2 \in WalletCodes, a \in TransferAmounts, r \in TransferRates :
          Transfer(c1, c2, a, r, WalletCap)

SpecWallet == InitWallet /\ [][NextWallet]_vars

(***************************************************************************)
(* The use-case level specification: portfolios.json and rates.json under  *)
(* create_portfolio_for_user, update_portfolio, update_rate, buy_currency  *)
(* and sell_currency.                                                      *)
(***************************************************************************)
\* largest balance the use-case level model lets a wallet grow to
MaxUnits == 1100

Uids == {1, 2}

\* (currency, amount) of the buy and sell calls tried
Orders ==
    {<<"BTC", Frac(1, 100)>>, <<"BTC", Frac(1, 1)>>,
     <<"EUR", Frac(500, 1)>>, <<"USD", Frac(100, 1)>>, <<"RUB", Frac(1, 1)>>,
     <<"DOGE", Frac(1, 1)>>, <<"BTC", Zero>>, <<"EUR", Frac(-1, 1)>>}

\* (from, to, rate) of the update_rate calls tried
RateUpdates ==
    {<<"USD", "BTC", Zero>>, <<"RUB", "USD", Zero>>}

\* no wallet of the document grows beyond the bound of the model
Capped(old, new) ==
    \A u \in DOMAIN new :
        Bounded(get_portfolio_by_user_id(old, u).wallets, new[u],
                Frac(MaxUnits, 1))

\* what the use-case level model remembers of the last call
TradeRes(op, user_id, code, amount, out) ==
    [op |-> op, user_id |-> user_id, code |-> code, amount |-> amount,
     exc |-> out.exc, ret |-> out.ret, mem |-> out.mem,
     steps |-> IF "steps" \in DOMAIN out THEN out.steps ELSE <<>>,
     had |-> user_id \in DOMAIN portfolios,
     before |-> get_portfolio_by_user_id(portfolios, user_id).wallets,
     rate |-> get_rate(load_rates(rates, now), "USD", code, now)]

Init ==
    /\ AppIdle
    /\ pf = [user_id |-> 1, wallets |-> EmptyWallets]
    /\ res = [op |-> "init"]

\* PortfolioManager.create_portfolio_for_user(user_id)
CreatePortfolioForUser(user_id) ==
    /\ portfolios' = create_portfolio_for_user(portfolios, user_id)
    /\ res' = [op |-> "create_portfolio_for_user", user_id |-> user_id]
    /\ UNCHANGED <<rates, now, pf, userVars, cliVars, svcVars, dbVars>>

\* PortfolioManager.update_portfolio(Portfolio(user_id)), as register_user
\* stores the portfolio of a new user
StoreEmptyPortfolio(user_id) ==
    /\ portfolios' = update_portfolio(portfolios, user_id, EmptyWallets)
    /\ res' = [op |-> "update_portfolio", user_id |-> user_id]
    /\ UNCHANGED <<rates, now, pf, userVars, cliVars, svcVars, dbVars>>

\* RateManager.update_rate(from, to, rate)
UpdateRate(from_currency, to_currency, rate) ==
    /\ rates' = update_rate(rates, from_currency, to_currency, rate,
                            "ParserService", now)
    /\ res' = [op |-> "update_rate", code |-> from_currency,
               to |-> to_currency, amount |-> rate, before |-> rates,
               t |-> now]
    /\ UNCHANGED <<portfolios, now, pf, userVars, cliVars, svcVars, dbVars>>

\* PortfolioUseCases.buy_currency(user_id, code, amount)
Buy(user_id, code, amount) ==
    LET out == buy_currency(portfolios, rates, user_id, code, amount, now)
    IN  /\ Capped(portfolios, out.doc)
        /\ portfolios' = out.doc
        /\ rates' = out.file
        /\ res' = TradeRes("buy", user_id, code, amount, out)
        /\ UNCHANGED <<now, pf, userVars, cliVars, svcVars, dbVars>>

\* PortfolioUseCases.sell_currency(user_id, code, amount)
Sell(user_id, code, amount) ==
    LET out == sell_currency(portfolios, rates, user_id, code, amount, now)
    IN  /\ Capped(portfolios, out.doc)
        /\ portfolios' = out.doc
        /\ rates' = out.file
        /\ res' = TradeRes("sell", user_id, code, amount, out)
        /\ UNCHANGED <<now, pf, userVars, cliVars, svcVars, dbVars>>

Next ==
    \/ CreatePortfolioForUser(1)
    \/ StoreEmptyPortfolio(2)
    \/ \E u \in RateUpdates : UpdateRate(u[1], u[2], u[3])
    \/ \E u \in Uids, o \in Orders : Buy(u, o[1], o[2])
    \/ \E u \in Uids, o \in Orders : Sell(u, o[1], o[2])

Spec == Init /\ [][Next]_vars

(***************************************************************************)
(* Properties of the wallet and of the trading use cases.                  *)
(***************************************************************************)
\* the last call was a buy or a sell of a registered currency, for a
\* positive amount, by a user who has a portfolio
Traded(op) ==
    /\ res.op = op
    /\ res.had
    /\ is_currency_registered(res.code)
    /\ FLt(Zero, res.amount)

\* the stored USD->code rate was available and positive
RateUsable == res.rate.found /\ FLt(Zero, res.rate.rate)

\* C1: buy_currency of a registered non-USD currency at a stored rate r > 0
\* computes cost = amount / r (1.0 BTC at 0.000025 costs 40000) and raises
\* InsufficientFundsError(USD, available = the USD balance, required = cost)
\* whenever the USD balance is below the cost
C1_BuyCostAndRejection ==
    (Traded("buy") /\ res.code # "USD" /\ RateUsable) =>
        LET cost == FDiv(res.amount, res.rate.rate)
            usd  == BalanceOf(res.before, "USD")
        IN  /\ FLt(usd, cost) =>
                res.exc = InsufficientFundsError("USD", usd, cost)
            /\ res.exc = NoExc => res.ret = cost
            /\ (res.code = "BTC" /\ res.amount = Frac(1, 1)
                  /\ res.rate.rate = Frac(25, 1000000)) =>
                cost = Frac(40000, 1)

\* a buy of 1.0 BTC at 0.000025 was rejected for 40000 USD against 1000
C1_Witness ==
    /\ Traded("buy")
    /\ res.code = "BTC"
    /\ res.amount = Frac(1, 1)
    /\ res.rate.found
    /\ res.rate.rate = Frac(25, 1000000)
    /\ res.exc = InsufficientFundsError("USD", Frac(1000, 1), Frac(40000, 1))

\* C2: Wallet.withdraw never succeeds when the amount exceeds the balance, it
\* raises InsufficientFundsError(code, available, required); after a failed
\* withdraw (amount > balance or amount <= 0) the balance is unchanged
C2_WithdrawGuard ==
    res.op = "withdraw" =>
        /\ FLt(res.before, res.amount) =>
               res.exc = InsufficientFundsError(res.code, res.before,
                                                res.amount)
        /\ (FLt(res.before, res.amount) \/ FLe(res.amount, Zero)) =>
               /\ res.exc # NoExc
               /\ pf.wallets[res.code] = res.before

\* a withdraw of more than a positive balance was rejected
C2_Witness ==
    /\ res.op = "withdraw"
    /\ FLt(Zero, res.before)
    /\ FLt(res.before, res.amount)
    /\ res.exc.type = "InsufficientFundsError"
    /\ pf.wallets[res.code] = res.before

\* C4: after a deposit or a withdraw the balance is rounded to 2 decimals
\* for the fiat codes and to 8 decimals for any other registered code such
\* as BTC (0.123456789 BTC into an empty wallet gives 0.12345679)
C4_RoundingByKind ==
    (res.op \in {"deposit", "withdraw"} /\ res.exc = NoExc) =>
        LET digits == IF res.code \in FiatList THEN 2 ELSE 8
            value  == IF res.op = "deposit"
                      THEN FAdd(res.before, res.amount)
                      ELSE FSub(res.before, res.amount)
        IN  pf.wallets[res.code] = Round(value, digits)

\* C5: sell_currency is rejected with InsufficientFundsError naming the
\* currency when the user has no such wallet or holds less than the amount;
\* otherwise it withdraws the amount from that wallet and deposits
\* revenue = amount / rate(USD->C) into the USD wallet, created if absent,
\* revenue = amount when the currency is USD
C5_SellEffect ==
    Traded("sell") =>
        LET C       == res.code
            held    == BalanceOf(res.before, C)
            revenue == IF C = "USD" THEN res.amount
                       ELSE FDiv(res.amount, res.rate.rate)
            left    == Round(FSub(held, res.amount), balance_digits(C))
            usd0    == IF C = "USD" THEN left
                       ELSE BalanceOf(res.before, "USD")
            usd1    == Round(FAdd(usd0, revenue), 2)
            after   == portfolios[res.user_id]
        IN  IF C \notin DOMAIN res.before \/ FLt(held, res.amount)
            THEN /\ res.exc = InsufficientFundsError(C, held, res.amount)
                 /\ after = res.before
            ELSE (C = "USD" \/ RateUsable) =>
                 /\ res.exc = NoExc
                 /\ res.ret = revenue
                 /\ DOMAIN after = DOMAIN res.before \cup {"USD"}
                 /\ after["USD"] = usd1
                 /\ C # "USD" => after[C] = left
                 /\ \A c \in DOMAIN res.before \ {C, "USD"} :
                        after[c] = res.before[c]

\* a sale of a non-USD currency went through and paid into the USD wallet
C5_Witness ==
    /\ Traded("sell")
    /\ res.code = "BTC"
    /\ res.exc = NoExc
    /\ res.ret = Frac(400, 1)
    /\ FLt(BalanceOf(res.before, "USD"), portfolios[res.user_id]["USD"])

\* a sale was rejected because the user has no wallet of the currency
C5_WitnessRejected ==
    /\ Traded("sell")
    /\ res.code \notin DOMAIN res.before
    /\ res.exc = InsufficientFundsError(res.code, Zero, res.amount)

(***************************************************************************)
(* Both levels together: a client loads a Portfolio object, works on it    *)
(* through the Wallet and Portfolio operations and stores it, next to the  *)
(* use cases.                                                              *)
(***************************************************************************)
\* (currency, amount) of the deposits and withdrawals tried
AllMoves ==
    {<<"USD", Frac(500, 1)>>, <<"EUR", Frac(460, 1)>>, <<"USD", Frac(-1, 1)>>}

\* (from, to, amount, exchange_rate) of the transfers tried
AllTransfers ==
    {<<"USD", "EUR", Frac(500, 1), Frac(23, 25)>>,
     <<"EUR", "USD", Frac(460, 1), Frac(25, 23)>>,
     <<"USD", "USD", Frac(500, 1), Frac(1, 1)>>,
     <<"EUR", "USD", Frac(-1, 1), Frac(1, 1)>>}

AllCap == Frac(MaxUnits, 1)

AllOrders == {<<"EUR", Frac(460, 1)>>, <<"EUR", Frac(-1, 1)>>}

\* PortfolioManager.get_portfolio_by_user_id(user_id)
GetPortfolio(user_id) ==
    /\ user_id \in DOMAIN portfolios
    /\ pf' = [user_id |-> user_id, wallets |-> portfolios[user_id]]
    /\ res' = [op |-> "get_portfolio_by_user_id", user_id |-> user_id]
    /\ UNCHANGED <<tradeVars, userVars, cliVars, svcVars, dbVars>>

\* PortfolioManager.update_portfolio(pf)
UpdatePortfolio ==
    /\ portfolios' = update_portfolio(portfolios, pf.user_id, pf.wallets)
    /\ res' = [op |-> "update_portfolio", user_id |-> pf.user_id]
    /\ UNCHANGED <<pf, rates, now, userVars, cliVars, svcVars, dbVars>>

NextAll ==
    \/ CreatePortfolioForUser(1)
    \/ \E o \in AllOrders : Buy(1, o[1], o[2])
    \/ \E o \in AllOrders : Sell(1, o[1], o[2])
    \/ GetPortfolio(1)
    \/ UpdatePortfolio
    \/ \E a \in {Zero, Frac(-1, 1)} : AddCurrency("GBP", a, AllCap)
    \/ \E m \in AllMoves : Deposit(m[1], m[2], AllCap)
    \/ \E m \in AllMoves : Withdraw(m[1], m[2])
    \/ \E x \in AllTransfers : Transfer(x[1], x[2], x[3], x[4], AllCap)

SpecAll == Init /\ [][NextAll]_vars

MaxUsers == 2

Usernames == {"alice", "bob", "carol"}

Passwords == {"pass1234", "wrong", "abc"}

\* what _generate_salt may return
Salts == {"saltsalt", "pepper00"}

\* no change_password call before update_user
NoChange == <<"", "">>

\* (new_password, new_salt) of the change_password calls tried
Changes == {NoChange} \cup ({"pass1234", "wrong"} \X Salts)

InitUsers ==
    /\ AppIdle
    /\ pf = [user_id |-> 1, wallets |-> EmptyWallets]
    /\ res = [op |-> "init"]

\* UserUseCases.register_user(username, password)
Register(username, password, salt) ==
    LET out == register_user(users, portfolios, username, password, salt, now)
    IN  /\ Len(out.users) <= MaxUsers
        /\ users' = out.users
        /\ portfolios' = out.portfolios
        /\ res' = [op |-> "register_user", username |-> username,
                   password |-> password, success |-> out.success,
                   message |-> out.message.kind, before |-> users]
        /\ UNCHANGED <<pf, rates, now, user, cliVars, svcVars, dbVars>>

\* UserUseCases.authenticate_user(username, password)
Authenticate(username, password) ==
    LET out == authenticate_user(users, username, password)
    IN  /\ res' = [op |-> "authenticate_user", username |-> username,
                   password |-> password, success |-> out.success,
                   user |-> out.user, message |-> out.message.kind]
        /\ UNCHANGED <<pf, tradeVars, userVars, cliVars, svcVars, dbVars>>

\* UserUseCases.update_user(user), the User object being the stored one
\* (or one with an id nobody has) after the username setter and, for a
\* change other than NoChange, after change_password
UpdateUser(user_id, username, change) ==
    LET stored == find_user_by_id(users, user_id)
        obj0 == IF stored # None THEN stored
                ELSE [user_id |-> user_id, username |-> "nobody",
                      hashed_password |-> hash_password("pass1234",
                                                        "saltsalt"),
                      salt |-> "saltsalt", registration_date |-> now]
        obj1 == set_username(obj0, username).user
        obj2 == IF change = NoChange THEN obj1
                ELSE change_password(obj1, change[1], change[2]).user
        out  == update_user(users, obj2)
    IN  /\ users' = out.users
        /\ res' = [op |-> "update_user", user_id |-> user_id,
                   username |-> obj2.username, success |-> out.success,
                   message |-> out.message.kind, before |-> users]
        /\ UNCHANGED <<pf, tradeVars, user, cliVars, svcVars, dbVars>>

NextUsers ==
    \/ \E u \in Usernames, p \in Passwords, s \in Salts : Register(u, p, s)
    \/ \E u \in Usernames, p \in Passwords : Authenticate(u, p)
    \/ \E i \in 1..(MaxUsers + 1), u \in Usernames, c \in Changes :
          UpdateUser(i, u, c)

SpecUsers == InitUsers /\ [][NextUsers]_vars

\* the record holding the name in the document, None when nobody holds it
HolderOf(doc, username) == find_user_by_username(doc, username)

\* C6: after any sequence of register_user and update_user calls no two
\* persisted records share a username; registering a used name fails with
\* the 'username taken' message, adds no record and leaves the holder's
\* record, its id included, as it was; a rename to a name held by another
\* id is rejected
C6_UniqueUsernames ==
    /\ \A i, j \in 1..Len(users) :
           i # j => users[i].username # users[j].username
    /\ (res.op = "register_user"
          /\ HolderOf(res.before, res.username) # None) =>
           /\ ~res.success
           /\ res.message = "username taken"
           /\ users = res.before
    /\ (res.op = "update_user"
          /\ HolderOf(res.before, res.username) # None
          /\ HolderOf(res.before, res.username).user_id # res.user_id) =>
           /\ ~res.success
           /\ users = res.before

\* a second registration of a held name was refused while two users exist
C6_Witness ==
    /\ res.op = "register_user"
    /\ Len(users) = 2
    /\ HolderOf(res.before, res.username) # None
    /\ res.message = "username taken"

\* a rename to the name of another user was refused
C6_WitnessRename ==
    /\ res.op = "update_user"
    /\ find_user_by_id(res.before, res.user_id) # None
    /\ HolderOf(res.before, res.username) # None
    /\ HolderOf(res.before, res.username).user_id # res.user_id
    /\ ~res.success

\* C7: after register_user(u, p) succeeds, authenticate_user(u, p) returns
\* (success, a User whose username is u, message); authenticate_user(u, p')
\* for p' # p and authenticate_user of an unregistered name return
\* (failure, no User, an authentication-error message)
C7_AuthAfterRegister ==
    /\ (res.op = "register_user" /\ res.success) =>
           \A p \in Passwords :
               LET a == authenticate_user(users, res.username, p)
               IN  IF p = res.password
                   THEN /\ a.success
                        /\ a.user # None
                        /\ a.user.username = res.username
                   ELSE /\ ~a.success
                        /\ a.user = None
                        /\ a.message.kind = "AuthenticationError"
    /\ \A u \in Usernames, p \in Passwords :
           HolderOf(users, u) = None =>
               LET a == authenticate_user(users, u, p)
               IN  /\ ~a.success
                   /\ a.user = None
                   /\ a.message.kind = "AuthenticationError"
    /\ res.op = "authenticate_user" =>
           IF res.success
           THEN res.user # None /\ res.user.username = res.username
           ELSE res.user = None /\ res.message = "AuthenticationError"

\* a registration succeeded next to another user, whose password differs
C7_Witness ==
    /\ res.op = "register_user"
    /\ res.success
    /\ Len(users) = 2
    /\ authenticate_user(users, res.username, res.password).success
    /\ ~authenticate_user(users, users[1].username, res.password).success

\* a login with the registered password succeeded
C7_WitnessLogin ==
    /\ res.op = "authenticate_user"
    /\ res.success
    /\ res.user.username = res.username

(***************************************************************************)
(* The User specification: one User object under create_new,               *)
(* verify_password and change_password.                                    *)
(***************************************************************************)
NewNames == {"alice", " alice ", "bob", "   "}

InitUser ==
    /\ AppIdle
    /\ pf = [user_id |-> 1, wallets |-> EmptyWallets]
    /\ res = [op |-> "init"]

\* user = User.create_new(username, password)
CreateNew(username, password, salt) ==
    LET out == create_new(username, password, salt, now)
    IN  /\ user' = IF out.exc = NoExc THEN out.user ELSE user
        /\ res' = [op |-> "create_new", password |-> password,
                   salt |-> salt, exc |-> out.exc]
        /\ UNCHANGED <<pf, tradeVars, users, cliVars, svcVars, dbVars>>

\* user.verify_password(password)
VerifyPassword(password) ==
    /\ user # None
    /\ res' = [op |-> "verify_password", password |-> password,
               ret |-> verify_password(user, password)]
    /\ UNCHANGED <<pf, tradeVars, userVars, cliVars, svcVars, dbVars>>

\* user.change_password(new_password)
ChangePassword(new_password, new_salt) ==
    /\ user # None
    /\ LET out == change_password(user, new_password, new_salt)
       IN  /\ user' = out.user
           /\ res' = [op |-> "change_password", password |-> new_password,
                      salt |-> new_salt, exc |-> out.exc,
                      valid_before |->
                          {q \in Passwords : verify_password(user, q)},
                      salt_before |-> user.salt]
    /\ UNCHANGED <<pf, tradeVars, users, cliVars, svcVars, dbVars>>

NextUser ==
    \/ \E u \in NewNames, p \in Passwords, s \in Salts : CreateNew(u, p, s)
    \/ \E p \in Passwords : VerifyPassword(p)
    \/ \E p \in Passwords, s \in Salts : ChangePassword(p, s)

SpecUser == InitUser /\ [][NextUser]_vars

\* the password checks of C8: right after create_new(username, P) exactly
\* P verifies; after change_password(P2) P2 verifies and no other password
\* that verified before does
PasswordRoundTrip ==
    /\ (res.op = "create_new" /\ res.exc = NoExc) =>
           \A q \in Passwords : verify_password(user, q) = (q = res.password)
    /\ (res.op = "change_password" /\ res.exc = NoExc) =>
           /\ verify_password(user, res.password)
           /\ \A q \in res.valid_before \ {res.password} :
                  ~verify_password(user, q)

\* C8, as stated: the password checks hold and after change_password the
\* salt differs from the salt before the change
C8_SaltDiffers ==
    /\ PasswordRoundTrip
    /\ (res.op = "change_password" /\ res.exc = NoExc) =>
           user.salt # res.salt_before

\* C8, amended: the password checks hold and after change_password the salt
\* is the one _generate_salt has just drawn, which may be the salt the user
\* had before
C8_SaltRedrawn ==
    /\ PasswordRoundTrip
    /\ (res.op = "change_password" /\ res.exc = NoExc) =>
           /\ user.salt = res.salt
           /\ user.salt \in Salts

\* the password was changed to another one and the salt drawn is the old
C8_Witness ==
    /\ res.op = "change_password"
    /\ res.exc = NoExc
    /\ res.valid_before # {}
    /\ res.password \notin res.valid_before
    /\ verify_password(user, res.password)
    /\ user.salt = res.salt_before

(***************************************************************************)
(* The CLI specification: one CLI object, its session and the files under  *)
(* the handlers of the commands and of the shell loop.                     *)
(***************************************************************************)
CliNames == {"alice", "bob"}

CliPasswords == {"pass1234", "wrong"}

CliOrders == {<<"EUR", Frac(460, 1)>>, <<"BTC", Frac(1, 1)>>}

Bases == {"USD", "XXX"}

ShellCommands == {"logout", "show-portfolio", "buy", "sell"}

InitCli ==
    /\ AppIdle
    /\ pf = [user_id |-> 1, wallets |-> EmptyWallets]
    /\ res = [op |-> "init"]

\* the handler op ran (from the shell loop when shell) and returned out
CliStep(op, shell, out) ==
    /\ Len(out.users) <= MaxUsers
    /\ Capped(portfolios, out.portfolios)
    /\ current_user' = out.current_user
    /\ users' = out.users
    /\ portfolios' = out.portfolios
    /\ rates' = out.rates
    /\ res' = [op |-> op, shell |-> shell,
               session_before |-> current_user # None,
               printed |-> out.printed, called |-> out.called,
               unchanged |-> /\ out.users = users
                             /\ out.portfolios = portfolios
                             /\ out.rates = rates]
    /\ UNCHANGED <<pf, now, user, svcVars, dbVars>>

\* CLI.__init__: a new process starts without a session
CliInit ==
    /\ current_user' = None
    /\ res' = [op |-> "CLI", shell |-> FALSE]
    /\ UNCHANGED <<pf, tradeVars, userVars, svcVars, dbVars>>

HandleRegister(username, password, salt) ==
    \E out \in {handle_register(current_user, users, portfolios, rates,
                               username, password, salt, now)} :
        CliStep("register", FALSE, out)

HandleLogin(username, password) ==
    \E out \in {handle_login(current_user, users, portfolios, rates,
                            username, password)} :
        CliStep("login", FALSE, out)

HandleShowPortfolio(base) ==
    \E out \in {handle_show_portfolio(current_user, users, portfolios, rates,
                                     base, now)} :
        CliStep("show-portfolio", FALSE, out)

HandleBuy(currency, amount) ==
    \E out \in {handle_buy(current_user, users, portfolios, rates,
                          currency, amount, now)} :
        CliStep("buy", FALSE, out)

HandleSell(currency, amount) ==
    \E out \in {handle_sell(current_user, users, portfolios, rates,
                           currency, amount, now)} :
        CliStep("sell", FALSE, out)

\* one command typed into CLI.handle_shell
Shell(cmd, currency, amount) ==
    \E out \in {shell_command(current_user, users, portfolios, rates,
                             cmd, currency, amount, now)} :
        CliStep(cmd, TRUE, out)

NextCli ==
    \/ CliInit
    \/ CreatePortfolioForUser(1)
    \/ StoreEmptyPortfolio(2)
    \/ \E u \in CliNames, p \in CliPasswords, s \in Salts :
          HandleRegister(u, p, s)
    \/ \E u \in CliNames, p \in CliPasswords : HandleLogin(u, p)
    \/ \E b \in Bases : HandleShowPortfolio(b)
    \/ \E o \in CliOrders : HandleBuy(o[1], o[2])
    \/ \E o \in CliOrders : HandleSell(o[1], o[2])
    \/ \E c \in ShellCommands, o \in CliOrders : Shell(c, o[1], o[2])

SpecCli == InitCli /\ [][NextCli]_vars

\* C9: show-portfolio, buy and sell invoked while no login has set the
\* session print the login-first message and return without calling
\* get_user_portfolio, buy_currency or sell_currency, so no persisted file
\* changes; the shell applies the same gate to its commands
C9_AuthGate ==
    (res.op \in {"show-portfolio", "buy", "sell"} /\ ~res.session_before) =>
        /\ res.printed = IF res.shell THEN LoginFirstShell ELSE LoginFirstCli
        /\ res.called = "none"
        /\ res.unchanged
        /\ current_user = None

\* a buy without a session was turned away although a registered user with
\* a funded portfolio exists
C9_Witness ==
    /\ res.op = "buy"
    /\ ~res.shell
    /\ ~res.session_before
    /\ res.printed = LoginFirstCli
    /\ Len(users) = 1
    /\ 1 \in DOMAIN portfolios
    /\ BalanceOf(portfolios[1], "USD") = Frac(1000, 1)

\* the shell turned a sell away
C9_WitnessShell ==
    /\ res.op = "sell"
    /\ res.shell
    /\ ~res.session_before
    /\ res.printed = LoginFirstShell

\* with a session the same command reaches the use case
C9_WitnessLoggedIn ==
    /\ res.op = "buy"
    /\ res.session_before
    /\ res.called = "buy_currency"
    /\ ~res.unchanged

(***************************************************************************)
(* The storage specification: threads call save_json, load_json and        *)
(* clear_cache of the one DatabaseManager on one filename; every step      *)
(* below is one statement of the method.                                   *)
(***************************************************************************)
InitDb ==
    /\ AppIdle
    /\ pf = [user_id |-> 1, wallets |-> EmptyWallets]
    /\ res = [op |-> "init"]

DbFrame ==
    UNCHANGED <<pf, res, tradeVars, userVars, cliVars, svcVars, exchange_rates>>

\* a thread calls db.save_json(filename, data)
CallSave(t, data) ==
    /\ threads[t].pc = "idle"
    /\ threads' = [threads EXCEPT
                     ![t] = [IdleThread EXCEPT !.pc = "save_lock",
                                               !.op = "save_json",
                                               !.data = data]]
    /\ UNCHANGED <<cache, dir, inodes, lock, saves>>
    /\ DbFrame

\* with self._lock:
SaveAcquire(t) ==
    /\ threads[t].pc = "save_lock"
    /\ lock = 0
    /\ lock' = t
    /\ Goto(t, "save_open")
    /\ UNCHANGED <<cache, dir, inodes, saves>>
    /\ DbFrame

\* open(temp_filepath, 'w'): creates the file or truncates it
SaveOpen(t) ==
    /\ threads[t].pc = "save_open"
    /\ LET ino == IF dir.tmp # 0 THEN dir.tmp ELSE Fresh(dir, threads)
       IN  /\ dir' = [dir EXCEPT !.tmp = ino]
           /\ inodes' = [inodes EXCEPT ![ino] = <<>>]
           /\ threads' = [threads EXCEPT ![t].pc = "save_write",
                                         ![t].fd = ino]
    /\ UNCHANGED <<cache, lock, saves>>
    /\ DbFrame

\* json.dump(data, f): one write; the file is closed after the last one.
\* With ok false the write raises IOError and the with block closes f.
SaveWrite(t, ok) ==
    /\ threads[t].pc = "save_write"
    /\ LET fd   == threads[t].fd
           next == dumps(threads[t].data)[Len(inodes[fd]) + 1]
           th   == [threads EXCEPT
                      ![t].pc = IF ~ok THEN "save_error"
                                ELSE IF Len(inodes[fd]) + 1 = NChunks
                                THEN "save_replace" ELSE "save_write",
                      ![t].fd = IF ok /\ Len(inodes[fd]) + 1 < NChunks
                                THEN fd ELSE 0]
       IN  /\ inodes' = IF ok THEN [inodes EXCEPT ![fd] = Append(@, next)]
                        ELSE inodes
           /\ threads' = th
    /\ UNCHANGED <<cache, dir, lock, saves>>
    /\ DbFrame

\* os.replace(temp_filepath, filepath)
SaveReplace(t) ==
    /\ threads[t].pc = "save_replace"
    /\ dir' = [target |-> dir.tmp, tmp |-> 0]
    /\ inodes' = Sweep(inodes, dir', threads)
    /\ saves' = [saves EXCEPT !.replaced = @ \cup {threads[t].data}]
    /\ Goto(t, "save_cache")
    /\ UNCHANGED <<cache, lock>>
    /\ DbFrame

\* self._cache[filename] = data
SaveCache(t) ==
    /\ threads[t].pc = "save_cache"
    /\ cache' = Entry(threads[t].data)
    /\ Goto(t, "save_return")
    /\ UNCHANGED <<dir, inodes, lock, saves>>
    /\ DbFrame

\* return True, or print the error and return False; the lock is released
SaveReturn(t) ==
    /\ threads[t].pc \in {"save_return", "save_error"}
    /\ lock' = 0
    /\ Finish(t, Returned(threads[t].pc = "save_return"))
    /\ saves' = IF threads[t].pc = "save_return"
                THEN [saves EXCEPT !.returned = @ \cup {threads[t].data}]
                ELSE saves
    /\ UNCHANGED <<cache, dir, inodes>>
    /\ DbFrame

\* a thread calls db.clear_cache(filename)
ClearCache(t) ==
    /\ threads[t].pc = "idle"
    /\ cache' = None
    /\ threads' = [threads EXCEPT
                     ![t] = [IdleThread EXCEPT !.op = "clear_cache"]]
    /\ UNCHANGED <<dir, inodes, lock, saves>>
    /\ DbFrame

\* a thread calls db.load_json(filename); cleared: its previous call was
\* clear_cache; after_save: a save_json of the filename has returned True
CallLoad(t) ==
    /\ threads[t].pc = "idle"
    /\ threads' = [threads EXCEPT
                     ![t] = [IdleThread EXCEPT
                               !.pc = "load_check",
                               !.op = "load_json",
                               !.cleared = (threads[t].op = "clear_cache"),
                               !.after_save = (saves.returned # {})]]
    /\ UNCHANGED <<cache, dir, inodes, lock, saves>>
    /\ DbFrame

\* if filename in self._cache:
LoadCheck(t) ==
    /\ threads[t].pc = "load_check"
    /\ Goto(t, IF cache # None THEN "load_hit" ELSE "load_exists")
    /\ UNCHANGED <<cache, dir, inodes, lock, saves>>
    /\ DbFrame

\* return self._cache[filename], after the hit or after storing the default
LoadHit(t) ==
    /\ threads[t].pc = "load_hit"
    /\ Finish(t, IF cache # None THEN Returned(cache.data) ELSE KeyError)
    /\ UNCHANGED <<cache, dir, inodes, lock, saves>>
    /\ DbFrame

\* if not os.path.exists(filepath):
LoadExists(t) ==
    /\ threads[t].pc = "load_exists"
    /\ Goto(t, IF dir.target = 0 THEN "load_default" ELSE "load_open")
    /\ UNCHANGED <<cache, dir, inodes, lock, saves>>
    /\ DbFrame

\* self._cache[filename] = {}
LoadDefault(t) ==
    /\ threads[t].pc = "load_default"
    /\ cache' = Entry(Default)
    /\ Goto(t, "load_hit")
    /\ UNCHANGED <<dir, inodes, lock, saves>>
    /\ DbFrame

\* open(filepath, 'r')
LoadOpen(t) ==
    /\ threads[t].pc = "load_open"
    /\ IF dir.target = 0
       THEN Finish(t, Returned(Default))
       ELSE threads' = [threads EXCEPT ![t].pc = "load_read",
                                       ![t].fd = dir.target]
    /\ UNCHANGED <<cache, dir, inodes, lock, saves>>
    /\ DbFrame

\* data = json.load(f), the file is closed; on JSONDecodeError the default
\* is returned
LoadRead(t) ==
    /\ threads[t].pc = "load_read"
    /\ LET parsed == loads(inodes[threads[t].fd])
           th == [threads EXCEPT
                    ![t].fd = 0,
                    ![t].pc = IF parsed.exc = NoExc THEN "load_store"
                              ELSE Continue(threads[t]),
                    ![t].data = parsed.data,
                    ![t].ret = IF parsed.exc = NoExc THEN None
                               ELSE Returned(Default)]
       IN  /\ threads' = th
           /\ inodes' = Sweep(inodes, dir, th)
    /\ UNCHANGED <<cache, dir, lock, saves>>
    /\ DbFrame

\* self._cache[filename] = data; return data
LoadStore(t) ==
    /\ threads[t].pc = "load_store"
    /\ cache' = Entry(threads[t].data)
    /\ Finish(t, Returned(threads[t].data))
    /\ UNCHANGED <<dir, inodes, lock, saves>>
    /\ DbFrame

NextDb ==
    \E t \in Threads :
        \/ \E d \in Docs : CallSave(t, d)
        \/ SaveAcquire(t)
        \/ SaveOpen(t)
        \/ \E ok \in BOOLEAN : SaveWrite(t, ok)
        \/ SaveReplace(t)
        \/ SaveCache(t)
        \/ SaveReturn(t)
        \/ ClearCache(t)
        \/ CallLoad(t)
        \/ LoadCheck(t)
        \/ LoadHit(t)
        \/ LoadExists(t)
        \/ LoadDefault(t)
        \/ LoadOpen(t)
        \/ LoadRead(t)
        \/ LoadStore(t)

SpecDb == InitDb /\ [][NextDb]_vars

\* thread t has returned from a load_json it made right after clear_cache
\* and after a save_json had returned True
LoadedAfterSave(t) ==
    /\ threads[t].pc = "idle"
    /\ threads[t].op = "load_json"
    /\ threads[t].cleared
    /\ threads[t].after_save

\* C10: after save_json returned True, a load_json made with the cache
\* cleared returns a completely saved document (the data just saved or
\* that of another completed save), never a partial or truncated one,
\* also when several threads save concurrently
C10_LoadReturnsSavedDocument ==
    \A t \in Threads :
        LoadedAfterSave(t) =>
            \E d \in saves.replaced : threads[t].ret = Returned(d)

\* every load_json that reads the file finds a whole document in it, one
\* that os.replace has installed
LoadFromFileIsWhole ==
    /\ dir.target # 0 => loads(inodes[dir.target]).exc = NoExc
    /\ \A t \in Threads :
           /\ threads[t].pc = "load_read" =>
                  loads(inodes[threads[t].fd]).exc = NoExc
           /\ threads[t].pc = "load_store" =>
                  threads[t].data \in saves.replaced

(***************************************************************************)
(* The rates specification: rates.json under RateManager.update_rate and   *)
(* RateUseCases.get_exchange_rate while the clock advances.                *)
(***************************************************************************)
\* the clock stops here
MaxNow == 452

\* seconds the clock advances by in one step
Ticks == {150, 151}

\* (from, to) asked of get_exchange_rate
RatePairs ==
    {<<"EUR", "RUB">>, <<"eur", "RUB">>, <<"USD", "EUR">>, <<"ADA", "USD">>,
     <<"USD", "ADA">>, <<"USD", "USD">>, <<"DOGE", "USD">>}

\* (from, to, rate) given to update_rate
RateSets ==
    {<<"EUR", "RUB", Frac(100, 1)>>, <<"ADA", "USD", Frac(1, 2)>>,
     <<"USD", "EUR", Frac(9, 10)>>, <<"ADA", "USD", Zero>>}

InitRates ==
    /\ AppIdle
    /\ pf = [user_id |-> 1, wallets |-> EmptyWallets]
    /\ res = [op |-> "init"]

\* time passes
Tick(d) ==
    /\ now + d <= MaxNow
    /\ now' = now + d
    /\ res' = [op |-> "tick"]
    /\ UNCHANGED <<pf, portfolios, rates, userVars, cliVars, svcVars, dbVars>>

\* what get_rate answers on the file as it is
stored_now(from_currency, to_currency) ==
    IF from_currency = to_currency THEN RateInfo(Frac(1, 1), now)
    ELSE get_rate(load_rates(rates, now), from_currency, to_currency, now)

\* what the rates model remembers of a get_exchange_rate call
RateRes(from_currency, to_currency, writable, out, stored, fetched) ==
    [op |-> "get_exchange_rate", code |-> from_currency, to |-> to_currency,
     writable |-> writable, success |-> out.success, data |-> out.data,
     stored |-> stored, fetched |-> fetched, before |-> rates,
     file |-> out.file, t |-> now,
     after_update |-> /\ res.op = "update_rate"
                      /\ res.code = from_currency
                      /\ res.to = to_currency]

\* RateUseCases.get_exchange_rate(from_currency, to_currency)
GetExchangeRate(from_currency, to_currency, writable) ==
    \E out \in {get_exchange_rate(rates, from_currency, to_currency, now,
                                  writable)} :
        /\ rates' = out.file
        /\ res' = RateRes(upper_strip(from_currency),
                          upper_strip(to_currency), writable, out,
                          stored_now(upper_strip(from_currency),
                                     upper_strip(to_currency)),
                          fetch_rate_from_external(
                              upper_strip(from_currency),
                              upper_strip(to_currency)))
        /\ UNCHANGED <<pf, portfolios, now, userVars, cliVars, svcVars, dbVars>>

\* (from, to) asked of RateManager.get_rate
GetRatePairs ==
    {<<"EUR", "ETH">>, <<"RUB", "EUR">>, <<"USD", "ADA">>, <<"BTC", "RUB">>,
     <<"EUR", "USD">>}

\* RateManager.get_rate(from_currency, to_currency)
GetRate(from_currency, to_currency) ==
    /\ rates' = load_rates(rates, now)
    /\ res' = [op |-> "get_rate", code |-> from_currency,
               to |-> to_currency, before |-> rates, t |-> now,
               out |-> get_rate(load_rates(rates, now), from_currency,
                                to_currency, now)]
    /\ UNCHANGED <<pf, portfolios, now, userVars, cliVars, svcVars, dbVars>>

NextRates ==
    \/ \E d \in Ticks : Tick(d)
    \/ \E u \in RateSets : UpdateRate(u[1], u[2], u[3])
    \/ \E p \in GetRatePairs : GetRate(p[1], p[2])
    \/ \E p \in RatePairs, w \in BOOLEAN : GetExchangeRate(p[1], p[2], w)

SpecRates == InitRates /\ [][NextRates]_vars

\* the last call was get_exchange_rate on two registered currencies for
\* which get_rate found a rate
AskedStored ==
    /\ res.op = "get_exchange_rate"
    /\ is_currency_registered(res.code)
    /\ is_currency_registered(res.to)
    /\ res.stored.exc = NoExc
    /\ res.stored.found

\* the refresh attempt of the last call yielded no rate or failed
RefreshFailed ==
    \/ res.fetched.exc # NoExc
    \/ ~truthy(res.fetched)
    \/ ~res.writable

\* C11: get_exchange_rate returns a stored rate older than rates_ttl_seconds
\* with success and is_fresh = false when the refresh yields no rate or
\* fails, and reports is_fresh = true right after update_rate wrote the pair
C11_Staleness ==
    /\ (AskedStored /\ res.t - res.stored.updated_at > rates_ttl_seconds
          /\ RefreshFailed) =>
           /\ res.success
           /\ ~res.data.is_fresh
           /\ res.data.rate = res.stored.rate
           /\ res.data.updated_at = res.stored.updated_at
           /\ res.file = load_rates(res.before, res.t)
    /\ (res.op = "get_exchange_rate" /\ res.after_update) =>
           /\ res.success
           /\ res.data.is_fresh

\* a rate written 301 seconds ago, for a pair the external source has no
\* rate for, came back stale
C11_Witness ==
    /\ AskedStored
    /\ res.t - res.stored.updated_at = rates_ttl_seconds + 1
    /\ res.fetched = FetchedNone
    /\ res.success
    /\ ~res.data.is_fresh

\* a rate asked right after update_rate wrote it came back fresh
C11_WitnessFresh ==
    /\ res.op = "get_exchange_rate"
    /\ res.after_update
    /\ res.code = "EUR"
    /\ res.to = "RUB"
    /\ res.data.is_fresh
    /\ res.data.rate = Frac(100, 1)

\* the document the last call read
DocRead == load_rates(res.before, res.t).rates

\* C12: for registered currencies A # B, with a record A_B of rate r # 0 and
\* no record B_A, get_rate(B, A) returns 1/r with the timestamp of A_B
C12_ReverseRate ==
    (/\ res.op = "get_rate"
     /\ is_currency_registered(res.code)
     /\ is_currency_registered(res.to)
     /\ <<res.to, res.code>> \in DOMAIN DocRead
     /\ <<res.code, res.to>> \notin DOMAIN DocRead
     /\ DocRead[<<res.to, res.code>>].rate # Zero) =>
        /\ res.out.exc = NoExc
        /\ res.out.found
        /\ FMul(res.out.rate, DocRead[<<res.to, res.code>>].rate) = Frac(1, 1)
        /\ res.out.updated_at = DocRead[<<res.to, res.code>>].updated_at

\* get_rate("RUB", "EUR") answered 1/100 from the record EUR_RUB written
\* earlier, while the clock has moved on since
C12_Witness ==
    /\ res.op = "get_rate"
    /\ res.code = "RUB"
    /\ res.to = "EUR"
    /\ res.out.found
    /\ res.out.rate = Frac(1, 100)
    /\ res.out.updated_at < res.t
    /\ <<"RUB", "EUR">> \notin DOMAIN DocRead

(***************************************************************************)
(* The calls specification: the five use cases that report through their   *)
(* result, called with every fault, over the three files and the clock.    *)
(***************************************************************************)
CallNames == {"alice"}

\* seconds the clock advances by in one step of the calls model
CallTicks == {rates_ttl_seconds + 1}

CallPasswords == {"pass1234", "abc"}

\* (from, to, rate) given to update_rate
CallRateSets == {<<"ADA", "USD", Zero>>}

\* (from, to) asked of get_exchange_rate
CallPairs ==
    {<<"USD", "ADA">>, <<"ADA", "USD">>, <<"USD", "EUR">>, <<"DOGE", "USD">>,
     <<"RUB", "GBP">>}

\* base currencies asked of get_user_portfolio
CallBases == {"USD", "ADA", "DOGE"}

\* what the calls model remembers of the last call
CallRes(op, fault, call) ==
    [op |-> op, fault |-> fault, raised |-> call.raised,
     success |-> call.success, message |-> call.message,
     inner |-> call.inner]

\* the User object handed to update_user: the stored one renamed, or one
\* with an id nobody has
renamed(doc, user_id, username) ==
    IF find_user_by_id(doc, user_id) # None
    THEN [find_user_by_id(doc, user_id) EXCEPT !.username = username]
    ELSE [user_id |-> user_id, username |-> username,
          hashed_password |-> hash_password("pass1234", "saltsalt"),
          salt |-> "saltsalt", registration_date |-> now]

\* UserUseCases.register_user(username, password)
CallRegister(username, password, salt, fault) ==
    \E out \in {register_user(users, portfolios, username, password, salt,
                              now)} :
      \E body \in {register_body(users, username, fault, out)} :
        /\ Len(out.users) <= MaxUsers
        /\ users' = register_users(users, fault, body, out)
        /\ portfolios' = register_portfolios(portfolios, body, out)
        /\ res' = CallRes("register_user", fault, use_case_call(body))
        /\ UNCHANGED <<pf, rates, now, user, cliVars, svcVars, dbVars>>

\* UserUseCases.authenticate_user(username, password)
CallAuthenticate(username, password, fault) ==
    \E out \in {authenticate_user(users, username, password)} :
        /\ res' = CallRes("authenticate_user", fault,
                          use_case_call(authenticate_body(users, username,
                                                          fault, out)))
        /\ UNCHANGED <<pf, tradeVars, userVars, cliVars, svcVars, dbVars>>

\* UserUseCases.update_user(user)
CallUpdateUser(user_id, username, fault) ==
    \E new \in {renamed(users, user_id, username)} :
      \E out \in {update_user(users, new)} :
        \E body \in {update_user_body(users, new, fault, out)} :
          /\ users' = IF body.success THEN out.users ELSE users
          /\ res' = CallRes("update_user", fault, use_case_call(body))
          /\ UNCHANGED <<pf, tradeVars, user, cliVars, svcVars, dbVars>>

\* RateUseCases.get_exchange_rate(from_currency, to_currency)
CallGetExchangeRate(from_currency, to_currency, fault) ==
    \E out \in {get_exchange_rate(rates, from_currency, to_currency, now,
                                  fault # "write")} :
      \E body \in {get_exchange_rate_body(
                       from_currency, to_currency, fault, out,
                       fetch_rate_from_external(from_currency,
                                                to_currency))} :
        /\ rates' = IF body.escaped = "none" THEN out.file ELSE rates
        /\ res' = CallRes("get_exchange_rate", fault, use_case_call(body))
        /\ UNCHANGED <<pf, portfolios, now, userVars, cliVars, svcVars, dbVars>>

\* PortfolioUseCases.get_user_portfolio(user_id, base_currency)
CallGetUserPortfolio(user_id, base_currency, fault) ==
    \E out \in {get_user_portfolio(portfolios, rates, user_id,
                                   base_currency, now)} :
      \E body \in {get_user_portfolio_body(
                       base_currency, fault, out,
                       portfolio_rate_raises(portfolios, rates, user_id,
                                             base_currency, now))} :
        /\ rates' = IF body.escaped = "none" THEN out.file ELSE rates
        /\ res' = CallRes("get_user_portfolio", fault, use_case_call(body))
        /\ UNCHANGED <<pf, portfolios, now, userVars, cliVars, svcVars, dbVars>>

NextCalls ==
    \/ \E d \in CallTicks : Tick(d)
    \/ \E u \in CallRateSets : UpdateRate(u[1], u[2], u[3])
    \/ CreatePortfolioForUser(1)
    \/ \E u \in CallNames, p \in CallPasswords, f \in Faults :
          CallRegister(u, p, "saltsalt", f)
    \/ \E u \in CallNames, p \in CallPasswords, f \in Faults :
          CallAuthenticate(u, p, f)
    \/ \E i \in 1..MaxUsers, u \in {"alice", "bob"}, f \in Faults :
          CallUpdateUser(i, u, f)
    \/ \E p \in CallPairs, f \in Faults :
          CallGetExchangeRate(p[1], p[2], f)
    \/ \E i \in 1..MaxUsers, b \in CallBases, f \in Faults :
          CallGetUserPortfolio(i, b, f)

SpecCalls == InitRates /\ [][NextCalls]_vars

CallOps ==
    {"register_user", "authenticate_user", "update_user",
     "get_exchange_rate", "get_user_portfolio"}

C13_WitnessSwallowed ==
    /\ res.op = "get_exchange_rate"
    /\ res.inner = "ApiRequestError"
    /\ res.success

\* the ids of the users of users.json
RegisteredIds == {users[i].user_id : i \in 1..Len(users)}

MaxId(doc) ==
    CHOOSE m \in {doc[i].user_id : i \in 1..Len(doc)} :
        \A i \in 1..Len(doc) : doc[i].user_id <= m

\* C15: register_user gives the id 1 to the first user and max id + 1 to
\* every later one; the ids of users.json are strictly increasing in the
\* order of registration, hence pairwise distinct, and no step changes the
\* id of a stored user
C15_SequentialIds ==
    /\ [](\A i, j \in 1..Len(users) :
             i < j => users[i].user_id < users[j].user_id)
    /\ []((res.op = "register_user" /\ res.success) =>
             /\ Len(users) = Len(res.before) + 1
             /\ users[Len(users)].user_id =
                    IF Len(res.before) = 0 THEN 1
                    ELSE MaxId(res.before) + 1)
    /\ [][/\ Len(users') >= Len(users)
          /\ \A i \in 1..Len(users) :
                users'[i].user_id = users[i].user_id]_vars

\* a second user was registered after the first one had been renamed and
\* got the id 2
C15_Witness ==
    /\ res.op = "register_user"
    /\ res.success
    /\ Len(users) = 2
    /\ users[1].user_id = 1
    /\ users[2].user_id = 2
    /\ users[1].username = "carol"
    /\ users[2].username = "alice"

(***************************************************************************)
(* The parser specification: one process of the parser service running     *)
(* RatesUpdater.run_update and RatesStorage.save_to_history on rates.json  *)
(* and exchange_rates.json; cache is the storage manager's entry for       *)
(* exchange_rates.json.                                                    *)
(***************************************************************************)
\* seconds the clock advances by between two runs
ParserTicks == {rates_ttl_seconds + 1}

\* the source_filter values given to run_update
Filters == {NoFilter, "COINGECKO"}

\* what CoinGeckoClient.fetch_rates does when it is invoked
CryptoFetches ==
    {FetchError(ApiRequestError),
     FetchOk((<<"BTC", "USD">> :> Frac(40000, 1))
             @@ (<<"ETH", "USD">> :> Frac(2500, 1)))}

\* config.EXCHANGERATE_API_KEY and what the request of
\* ExchangeRateApiClient.fetch_rates answers
FiatSetups ==
    {<<"", FetchOk(<<"EUR", "USD">> :> Frac(23, 25))>>,
     <<"key", FetchOk(<<"EUR", "USD">> :> Frac(23, 25))>>,
     <<"key", FetchError(ValueError)>>}

\* records given to save_to_history directly
ManualRecords ==
    history_records(<<"BTC", "USD">> :> Frac(1, 1), "Manual", now)

\* the disk during one call: (the files can be written, exchange_rates.json
\* can be read)
Disks == {<<TRUE, TRUE>>, <<FALSE, TRUE>>, <<TRUE, FALSE>>}

InitParser ==
    /\ AppIdle
    /\ pf = [user_id |-> 1, wallets |-> EmptyWallets]
    /\ res = [op |-> "init"]

\* RatesUpdater().run_update(source_filter)
RunUpdate(source_filter, crypto, api_key, response, disk_ok, readable) ==
    \E out \in {run_update(source_filter,
                           ("CoinGecko" :> crypto)
                           @@ ("ExchangeRate-API" :>
                                  fiat_fetch_rates(api_key, response)),
                           rates, cache, exchange_rates, now, disk_ok,
                           readable)} :
        /\ rates' = out.rates
        /\ exchange_rates' = out.history
        /\ cache' = out.entry
        /\ res' = [op |-> "run_update", filter |-> source_filter,
                   crypto |-> crypto,
                   fiat |-> fiat_fetch_rates(api_key, response),
                   api_key |-> api_key, disk_ok |-> disk_ok,
                   readable |-> readable, t |-> now,
                   sources |-> out.sources, errors |-> out.errors,
                   total_rates |-> out.total_rates,
                   success |-> out.success, invoked |-> out.invoked,
                   all_rates |-> out.all_rates,
                   had |-> IF rates = Absent THEN {}
                           ELSE DOMAIN rates.rates]
        /\ UNCHANGED <<pf, portfolios, now, userVars, cliVars, svcVars, dir, inodes,
                       lock, threads, saves>>

\* RatesStorage().save_to_history(records, source)
SaveToHistory(records, disk_ok, readable) ==
    \E out \in {save_to_history(cache, exchange_rates, records, disk_ok,
                                readable)} :
        /\ exchange_rates' = out.file
        /\ cache' = out.entry
        /\ res' = [op |-> "save_to_history", ret |-> out.ret,
                   disk_ok |-> disk_ok, readable |-> readable, t |-> now]
        /\ UNCHANGED <<pf, portfolios, rates, now, userVars, cliVars, svcVars, dir,
                       inodes, lock, threads, saves>>

\* the process ends and a new one starts with an empty cache
NewProcess ==
    /\ cache' = None
    /\ res' = [op |-> "new_process"]
    /\ UNCHANGED <<pf, portfolios, rates, now, userVars, cliVars, svcVars, dir,
                   inodes, lock, threads, saves, exchange_rates>>

NextParser ==
    \/ \E d \in ParserTicks : Tick(d)
    \/ \E f \in Filters, c \in CryptoFetches, s \in FiatSetups,
          k \in Disks : RunUpdate(f, c, s[1], s[2], k[1], k[2])
    \/ \E k \in Disks : SaveToHistory(ManualRecords, k[1], k[2])
    \/ NewProcess

SpecParser == InitParser /\ [][NextParser]_vars

\* C16: a run_update whose source_filter is "coingecko" in any letter case
\* invokes the crypto client only: the fiat client's fetch_rates is not
\* called, sources has the crypto entry only, and total_rates is the number
\* of pairs the crypto client returned.
C16_CryptoOnly ==
    (res.op = "run_update" /\ res.filter \in {"COINGECKO", "coingecko"})
        => /\ res.invoked = <<"CoinGecko">>
           /\ DOMAIN res.sources = {"CoinGecko"}
           /\ res.total_rates = Cardinality(DOMAIN res.crypto.rates)

\* a run filtered to "COINGECKO" in which the crypto client returned two
\* pairs while the fiat client, had it been asked, would have returned one
C16_Witness ==
    /\ res.op = "run_update"
    /\ res.filter = "COINGECKO"
    /\ res.total_rates = 2
    /\ res.fiat.exc = NoExc
    /\ DOMAIN res.fiat.rates # {}

\* what the client name did in the last run_update
FetchOf(name) == IF name = "CoinGecko" THEN res.crypto ELSE res.fiat

\* C17: in a run_update an error of one client's fetch_rates does not keep
\* the other clients from being processed; the client that failed is
\* recorded with status "error" and the others with what they returned;
\* success is true exactly when the errors list is empty; a fiat client
\* without an API key returns nothing and adds no error.
C17_ErrorIsolation ==
    res.op = "run_update"
        => /\ res.filter = NoFilter => res.invoked = Clients
           /\ \A i \in 1..Len(res.invoked) :
                  /\ res.invoked[i] \in DOMAIN res.sources
                  /\ (res.sources[res.invoked[i]].status = "error")
                         <=> (FetchOf(res.invoked[i]).exc # NoExc)
                  /\ FetchOf(res.invoked[i]).exc = NoExc
                         => /\ res.sources[res.invoked[i]].status = "success"
                            /\ res.sources[res.invoked[i]].rates
                                   = DOMAIN FetchOf(res.invoked[i]).rates
                            /\ DOMAIN FetchOf(res.invoked[i]).rates
                                   \subseteq DOMAIN res.all_rates
           /\ res.success <=> (res.errors = <<>>)
           /\ (res.api_key = "" /\ "ExchangeRate-API" \in DOMAIN res.sources)
                  => /\ res.sources["ExchangeRate-API"].status = "success"
                     /\ res.sources["ExchangeRate-API"].rates_count = 0
                     /\ \A i \in 1..Len(res.errors) :
                            res.errors[i] # "ExchangeRate-API"
           /\ (res.api_key = "" /\ res.crypto.exc = NoExc /\ res.disk_ok)
                  => res.success

\* an unfiltered run in which the crypto client raised and the fiat client
\* was processed all the same: its pair was aggregated and the run is
\* reported as unsuccessful
C17_Witness ==
    /\ res.op = "run_update"
    /\ res.filter = NoFilter
    /\ res.crypto.exc = ApiRequestError
    /\ res.sources["CoinGecko"].status = "error"
    /\ res.sources["ExchangeRate-API"].status = "success"
    /\ res.total_rates = 1
    /\ ~res.success

\* an unfiltered run without an API key for the fiat client that succeeded
C17_WitnessNoKey ==
    /\ res.op = "run_update"
    /\ res.filter = NoFilter
    /\ res.api_key = ""
    /\ res.total_rates = 2
    /\ res.success

\* the records of exchange_rates.json
Stored(file) == IF file = Absent THEN NoRecords ELSE file.data

\* every record of exchange_rates.json is there after the step, unchanged
Kept ==
    \A id \in DOMAIN Stored(exchange_rates) :
        /\ id \in DOMAIN Stored(exchange_rates')
        /\ Stored(exchange_rates')[id] = Stored(exchange_rates)[id]

\* C18: across run_update and save_to_history calls the history document
\* is append-only: every record id once present stays present with
\* unchanged content, an incoming record with a stored id does not
\* overwrite it, and the set of ids never shrinks.
C18_AppendOnly == [][Kept]_vars

\* the history document is append-only across the calls during which
\* exchange_rates.json could be read
C18_AppendOnlyWhileReadable ==
    [][(res'.op \in {"run_update", "save_to_history"} /\ ~res'.readable)
           \/ Kept]_vars

\* a save_to_history with a record of a stored id has just returned True
\* and the stored record is the one of the crypto client
C18_Witness ==
    /\ res.op = "save_to_history"
    /\ res.ret
    /\ res.readable
    /\ <<"BTC", "USD", res.t>> \in DOMAIN Stored(exchange_rates)
    /\ Stored(exchange_rates)[<<"BTC", "USD", res.t>>].source = "CoinGecko"
    /\ Cardinality(DOMAIN Stored(exchange_rates)) > 2

\* the last call was a run_update that aggregated a rate and whose saves
\* succeeded
Aggregated ==
    /\ res.op = "run_update"
    /\ res.all_rates # NoRates
    /\ res.disk_ok

C19_WitnessNothing ==
    /\ res.op = "run_update"
    /\ res.all_rates = NoRates
    /\ res.filter = NoFilter
    /\ rates # Absent
    /\ exchange_rates # Absent

\* the last call was RateManager.update_rate
Updated == res.op = "update_rate"

\* the document update_rate loaded: the file, or the default document
LoadedBefore == load_rates(res.before, res.t)

\* C20: update_rate(from, to, rate, source) changes the record of the pair
\* FROM_TO, the document's source and its last_refresh, and nothing else:
\* the record of the inverse pair TO_FROM and of every other pair is the
\* one the document held before.
C20_UpdateRateFrame ==
    Updated
        => /\ DOMAIN rates.rates
                  = DOMAIN LoadedBefore.rates \cup {<<res.code, res.to>>}
           /\ rates.rates[<<res.code, res.to>>] = RateRec(res.amount, res.t)
           /\ rates.source = "ParserService"
           /\ rates.last_refresh = res.t
           /\ \A k \in DOMAIN LoadedBefore.rates :
                  k # <<res.code, res.to>>
                      => rates.rates[k] = LoadedBefore.rates[k]

\* USD_EUR has just been updated in a document that holds an older EUR_USD
\* record
C20_Witness ==
    /\ Updated
    /\ res.code = "USD"
    /\ res.to = "EUR"
    /\ res.before # Absent
    /\ <<"EUR", "USD">> \in DOMAIN rates.rates
    /\ rates.rates[<<"EUR", "USD">>].updated_at < res.t
    /\ rates.rates[<<"USD", "EUR">>].rate # res.before.rates[<<"USD", "EUR">>].rate

(***************************************************************************)
(* The currency specification: Currency.__init__ and get_currency on code  *)
(* strings.  A code string is the sequence of its characters, so that      *)
(* strip, upper, len and `in` are computed on the characters.              *)
(***************************************************************************)
\* the longest code string tried
MaxCodeLen == 6

\* the characters of the code strings tried
CodeChars == {" ", "a", "A", "D"}

\* the names given to Currency.__init__
CurrencyNames == {"", "   ", "Cardano"}

\* all tuples over S of length n
RECURSIVE TuplesOf(_, _)
TuplesOf(S, n) ==
    IF n = 0 THEN {<<>>}
    ELSE {Append(s, c) : s \in TuplesOf(S, n - 1), c \in S}

CodeStrings == UNION {TuplesOf(CodeChars, n) : n \in 0..MaxCodeLen}

\* the characters str.strip removes
Whitespace == {" "}

RECURSIVE lstrip(_)
lstrip(s) ==
    IF s # <<>> /\ Head(s) \in Whitespace THEN lstrip(Tail(s)) ELSE s

RECURSIVE rstrip(_)
rstrip(s) ==
    IF s # <<>> /\ s[Len(s)] \in Whitespace
    THEN rstrip(SubSeq(s, 1, Len(s) - 1))
    ELSE s

\* str.upper on one character
upper_char(c) ==
    CASE c = "a" -> "A"
      [] c = "d" -> "D"
      [] OTHER   -> c

\* a code taken as it was given
normalized_as_given(s) == s

\* code.strip().upper()
normalized(s) ==
    [i \in 1..Len(rstrip(lstrip(s))) |-> upper_char(rstrip(lstrip(s))[i])]

\* the string of a sequence of characters
RECURSIVE join(_)
join(s) == IF s = <<>> THEN "" ELSE Head(s) \o join(Tail(s))

\* CurrencyNotFoundError(currency_code)
CurrencyNotFound(currency_code) ==
    [type |-> "CurrencyNotFoundError", currency_code |-> currency_code]

\* _CURRENCY_REGISTRY.get(code) of get_currency: [exc, currency]; an entry
\* of the registry is named by its key
registry_get(code) ==
    IF join(code) \in CURRENCY_REGISTRY
    THEN [exc |-> NoExc, currency |-> join(code)]
    ELSE [exc |-> CurrencyNotFound(join(code)), currency |-> ""]

\* get_currency(code)
get_currency(s) == registry_get(normalized(s))

\* the tests of Currency.__init__ on the normalized code
code_accepted(code) ==
    /\ 2 <= Len(code)
    /\ Len(code) <= 5
    /\ \A i \in 1..Len(code) : code[i] # " "

\* Currency.__init__(name, code): [exc, code]
Currency_init(name, s) ==
    IF name = "" \/ strip(name) = "" THEN [exc |-> ValueError, code |-> ""]
    ELSE IF ~code_accepted(normalized(s))
    THEN [exc |-> ValueError, code |-> ""]
    ELSE [exc |-> NoExc, code |-> join(normalized(s))]

InitCurrency ==
    /\ AppIdle
    /\ pf = [user_id |-> 1, wallets |-> EmptyWallets]
    /\ \E s \in CodeStrings : res = [op |-> "init", arg |-> s]

\* get_currency(code) on the code string drawn
GetCurrency ==
    /\ res.op = "init"
    /\ res' = [op |-> "get_currency", arg |-> res.arg,
               out |-> get_currency(res.arg)]
    /\ UNCHANGED <<pf, tradeVars, userVars, cliVars, svcVars, dbVars>>

\* FiatCurrency(name, code, "Country") on the code string drawn
NewCurrency(name) ==
    /\ res.op = "init"
    /\ res' = [op |-> "Currency", arg |-> res.arg, name |-> name,
               out |-> Currency_init(name, res.arg)]
    /\ UNCHANGED <<pf, tradeVars, userVars, cliVars, svcVars, dbVars>>

NextCurrency ==
    \/ GetCurrency
    \/ \E name \in CurrencyNames : NewCurrency(name)

SpecCurrency == InitCurrency /\ [][NextCurrency]_vars

\* the positions of s that hold a character other than a space
Inked(s) == {i \in 1..Len(s) : s[i] # " "}

\* s without the spaces around it, in upper case
Trimmed(s) ==
    IF Inked(s) = {} THEN <<>>
    ELSE LET lo == CHOOSE i \in Inked(s) : \A j \in Inked(s) : i <= j
             hi == CHOOSE i \in Inked(s) : \A j \in Inked(s) : j <= i
         IN  [i \in 1..(hi - lo + 1) |-> upper_char(s[lo + i - 1])]

\* C21: get_currency trims and upper-cases its argument, so two arguments
\* that differ in letter case or in spaces around them get the same
\* registry entry; for a code that is not in the registry it raises
\* CurrencyNotFoundError carrying the code; the construction of a currency
\* raises ValueError for every code whose normalized form is not 2 to 5
\* characters long or holds a space, and for no other code.
C21_CodeNormalized ==
    /\ res.op = "get_currency"
           => IF join(Trimmed(res.arg)) \in CURRENCY_REGISTRY
              THEN /\ res.out.exc = NoExc
                   /\ res.out.currency = join(Trimmed(res.arg))
              ELSE res.out.exc = CurrencyNotFound(join(Trimmed(res.arg)))
    /\ (res.op = "Currency" /\ res.name = "Cardano")
           => /\ (res.out.exc = ValueError)
                    <=> \/ Len(Trimmed(res.arg)) < 2
                        \/ Len(Trimmed(res.arg)) > 5
                        \/ \E i \in 1..Len(Trimmed(res.arg)) :
                               Trimmed(res.arg)[i] = " "
              /\ res.out.exc = NoExc
                     => res.out.code = join(Trimmed(res.arg))

\* get_currency(" aDa ") has returned the entry of ADA
C21_Witness ==
    /\ res.op = "get_currency"
    /\ res.arg = <<" ", "a", "D", "a", " ">>
    /\ res.out.exc = NoExc
    /\ res.out.currency = "ADA"

\* the construction has rejected "AD A", which has four characters and a
\* space inside
C21_WitnessRejected ==
    /\ res.op = "Currency"
    /\ res.name = "Cardano"
    /\ res.arg = <<"A", "D", " ", "A">>
    /\ res.out.exc = ValueError

(***************************************************************************)
(* The funds specification: buy_currency and sell_currency of EUR on a     *)
(* portfolio with a USD and a EUR wallet, with amounts below one cent,     *)
(* amounts that are not floats and a rate that is infinite, which make the *)
(* second wallet call of the try block fail.                               *)
(***************************************************************************)
\* the largest balance a wallet starts with, in cents
MaxFundsCents == 5

\* amounts given to buy_currency and sell_currency
FundsAmounts ==
    {Frac(138, 10000), Fraction(69, 5000), Frac(15, 1000)}

\* rates given to update_rate for USD_EUR
FundsRates == {Infinity, Frac(92, 100)}

InitFunds ==
    /\ \E usd \in 0..MaxFundsCents, eur \in 0..MaxFundsCents :
           portfolios = (1 :> (("USD" :> Frac(usd, 100))
                               @@ ("EUR" :> Frac(eur, 100))))
    /\ rates = Absent
    /\ now = 0
    /\ UsersIdle
    /\ CliIdle
    /\ SvcIdle
    /\ DbIdle
    /\ pf = [user_id |-> 1, wallets |-> EmptyWallets]
    /\ res = [op |-> "init"]

\* no wallet holds more than the bound of the model
FundsCapped ==
    \A c \in DOMAIN portfolios[1] :
        FLe(portfolios[1][c], Frac(MaxFundsCents + 2, 100))

NextFunds ==
    \/ \E a \in FundsAmounts : Buy(1, "EUR", a) /\ FundsCapped'
    \/ \E a \in FundsAmounts : Sell(1, "EUR", a) /\ FundsCapped'
    \/ \E r \in FundsRates : UpdateRate("USD", "EUR", r)

SpecFunds == InitFunds /\ [][NextFunds]_vars

\* the last call was a buy or a sell that reached its try block
Moved == res.op \in {"buy", "sell"} /\ res.steps # <<>>

\* the wallet the last call withdraws from
SrcWallet == IF res.op = "buy" THEN "USD" ELSE res.code

\* the wallet the last call deposits into
DstWallet == IF res.op = "buy" THEN res.code ELSE "USD"

\* the deposit into the destination wallet failed after the withdrawal
DepositFailed ==
    /\ Moved
    /\ Len(res.steps) >= 2
    /\ res.steps[1].done
    /\ ~res.steps[2].done

\* a deposit into the destination wallet is made only after the withdrawal
\* from the source wallet has returned
WithdrawFirst ==
    Moved
        => /\ res.steps[1] \in {WalletCall("withdraw", SrcWallet, TRUE),
                                WalletCall("withdraw", SrcWallet, FALSE)}
           /\ \A i \in 1..Len(res.steps) :
                  (res.steps[i].op = "deposit" /\ i = 2)
                      => /\ res.steps[i].code = DstWallet
                         /\ res.steps[1].done

\* C22: within a buy_currency or sell_currency call the withdrawal from
\* the source wallet comes before the deposit into the destination wallet,
\* and when that deposit fails after the withdrawal succeeded, the call
\* raises with the source wallet back at the balance it had before the call.
C22_WithdrawThenRestore ==
    /\ WithdrawFirst
    /\ DepositFailed
           => /\ res.exc # NoExc
              /\ res.mem[SrcWallet] = res.before[SrcWallet]

\* the same with the source wallet within one cent of its balance before
\* the call, and portfolios.json as it was
C22_RestoredWithinACent ==
    /\ WithdrawFirst
    /\ DepositFailed
           => /\ res.exc = ValueError
              /\ FLe(FSub(res.mem[SrcWallet], res.before[SrcWallet]),
                     Frac(1, 100))
              /\ FLe(FSub(res.before[SrcWallet], res.mem[SrcWallet]),
                     Frac(1, 100))
              /\ portfolios[res.user_id] = res.before

\* a buy whose deposit failed and whose compensating deposit brought the
\* USD wallet back to its balance
C22_Witness ==
    /\ DepositFailed
    /\ res.op = "buy"
    /\ Len(res.steps) = 3
    /\ res.mem["USD"] = res.before["USD"]

\* a sell whose deposit failed and left the wallet sold from a cent off
C22_WitnessOff ==
    /\ DepositFailed
    /\ res.op = "sell"
    /\ res.mem[SrcWallet] # res.before[SrcWallet]

(***************************************************************************)
(* A purchase followed by the sale of the same amount (usecases.py).       *)
(* The specification starts from one user holding USD, with or without a   *)
(* BTC wallet, and the rates USD_BTC and USD_EUR stored.                   *)
(***************************************************************************)
\* the dollars a wallet of the initial portfolio may hold
RoundUsd == {0, 40, 100}

\* the greatest USD balance the specification follows
MaxRoundUsd == 100

\* orders given to buy_currency and sell_currency
RoundOrders ==
    {<<"BTC", Frac(1, 1000)>>, <<"EUR", Frac(1234, 100)>>}

\* rates.json holding the two rates, written at time 0
RoundRates ==
    update_rate(update_rate(Absent, "USD", "BTC", Frac(25, 1000000),
                            "ParserService", 0),
                "USD", "EUR", Frac(92, 100), "ParserService", 0)

InitRound ==
    /\ \E usd \in RoundUsd, held \in {{}, {"BTC"}} :
           portfolios = (1 :> (("USD" :> Frac(usd, 1))
                               @@ [c \in held |-> Frac(1, 2)]))
    /\ rates = RoundRates
    /\ now = 0
    /\ UsersIdle
    /\ CliIdle
    /\ SvcIdle
    /\ DbIdle
    /\ pf = [user_id |-> 1, wallets |-> EmptyWallets]
    /\ res = [op |-> "init"]

\* the USD wallet stays within the bound of the model
RoundCapped == FLe(BalanceOf(portfolios[1], "USD"), Frac(MaxRoundUsd, 1))

NextRound ==
    \/ \E o \in RoundOrders : Buy(1, o[1], o[2]) /\ RoundCapped'
    \/ \E o \in RoundOrders : Sell(1, o[1], o[2]) /\ RoundCapped'

SpecRound == InitRound /\ [][NextRound]_vars

\* the number of decimals the wallets of a currency are kept at: 2 for the
\* fiat currencies, 8 for the others
assigned_digits(code) == IF code \in FiatList THEN 2 ELSE 8

\* the last call was buy(C, a) for a registered currency C other than USD,
\* a > 0 exact at the decimals of C, the USD wallet covering the cost
BuyCovered ==
    /\ Traded("buy")
    /\ res.code # "USD"
    /\ Round(res.amount, assigned_digits(res.code)) = res.amount
    /\ RateUsable
    /\ FLe(FDiv(res.amount, res.rate.rate), BalanceOf(res.before, "USD"))

\* this step is sell(C, a) right after buy(C, a), at the same rate
SellBack ==
    /\ BuyCovered
    /\ res'.op = "sell"
    /\ res'.user_id = res.user_id
    /\ res'.code = res.code
    /\ res'.amount = res.amount
    /\ res'.rate = res.rate

\* both calls returned, the wallet of C is back at its balance and the USD
\* wallet within `unit' of its balance
Restored(unit) ==
    LET after == portfolios'[res.user_id]
        usd0  == BalanceOf(res.before, "USD")
    IN  /\ res.exc = NoExc
        /\ res'.exc = NoExc
        /\ BalanceOf(after, res.code) = BalanceOf(res.before, res.code)
        /\ FLe(FSub(after["USD"], usd0), unit)
        /\ FLe(FSub(usd0, after["USD"]), unit)

\* C23: buy_currency and sell_currency are inverse: for a user with enough
\* USD, a registered currency C other than USD and an amount a > 0 exact at
\* the decimals of C's wallet (2 for fiat, 8 for crypto), buy(C, a) followed
\* by sell(C, a) at the same rate both succeed, the balance of C returns to
\* its value and the USD balance returns to within 0.01
C23_BuySellInverse == [][SellBack => Restored(Frac(1, 100))]_vars

\* the same for amounts exact at 2 decimals, whatever the currency
C23_InverseAtTwoDecimals ==
    [][(SellBack /\ Round(res.amount, 2) = res.amount)
           => Restored(Frac(1, 100))]_vars

\* 0.001 BTC was bought into an empty wallet, which stayed at 0.0, and the
\* sale of 0.001 BTC was rejected
C23_WitnessLost ==
    /\ res.op = "sell"
    /\ res.code = "BTC"
    /\ res.amount = Frac(1, 1000)
    /\ res.exc = InsufficientFundsError("BTC", Zero, Frac(1, 1000))
    /\ portfolios[1]["USD"] = Frac(60, 1)

\* 12.34 EUR were bought and sold back
C23_WitnessBack ==
    /\ res.op = "sell"
    /\ res.code = "EUR"
    /\ res.amount = Frac(1234, 100)
    /\ res.exc = NoExc
    /\ portfolios[1]["USD"] = Frac(100, 1)
    /\ portfolios[1]["EUR"] = Zero

(***************************************************************************)
(* The decorators cache_result and retry_on_failure (decorators.py).       *)
(* A wrapped function is given by what its calls do: the value it returns  *)
(* or the exception it raises, and the seconds it takes.                   *)
(***************************************************************************)
\* the last second of the clock of this specification
MaxMemoNow == 4

\* the ttl_seconds a function is wrapped with
MemoTtls == {0, 2, 3}

\* the keyword names of the calls, in sorted order
KwNames == <<"x", "y">>

NoKwargs == [n \in {} |-> 0]

\* the calls made of the wrapped function
MemoCalls ==
    {[args |-> <<1>>, kwargs |-> NoKwargs],
     [args |-> <<>>, kwargs |-> ("y" :> 2) @@ ("x" :> 1)]}

\* str(args) for a tuple of integers
RECURSIVE str_items(_)
str_items(args) ==
    IF Len(args) = 1 THEN ToString(args[1])
    ELSE ToString(args[1]) \o ", " \o str_items(Tail(args))

str_args(args) ==
    IF Len(args) = 0 THEN "()"
    ELSE IF Len(args) = 1 THEN "(" \o ToString(args[1]) \o ",)"
    ELSE "(" \o str_items(args) \o ")"

\* sorted(kwargs.items()): the items by name
sorted_items(kwargs) ==
    SelectSeq([i \in 1..Len(KwNames) |->
                  <<KwNames[i],
                    IF KwNames[i] \in DOMAIN kwargs THEN kwargs[KwNames[i]]
                    ELSE 0>>],
              LAMBDA item : item[1] \in DOMAIN kwargs)

\* str of a list of (name, value) tuples
RECURSIVE str_pairs(_)
str_pairs(items) ==
    LET head == "('" \o items[1][1] \o "', " \o ToString(items[1][2]) \o ")"
    IN  IF Len(items) = 1 THEN head
        ELSE head \o ", " \o str_pairs(Tail(items))

str_list(items) ==
    IF Len(items) = 0 THEN "[]" ELSE "[" \o str_pairs(items) \o "]"

\* key = str(args) + str(sorted(kwargs.items()))
key_of(args, kwargs) ==
    str_args(args) \o str_list(sorted_items(kwargs))

\* an entry that is served up to and including the age ttl_seconds
entry_fresh_inclusive(timestamp, t, ttl_seconds) ==
    t - timestamp <= ttl_seconds

\* time.time() - timestamp < ttl_seconds
entry_fresh(timestamp, t, ttl_seconds) ==
    t - timestamp < ttl_seconds

\* a purge that keeps the entries of age ttl_seconds
without_older(entries, current_time, ttl_seconds) ==
    [k \in {e \in DOMAIN entries :
                current_time - entries[e].t <= ttl_seconds} |-> entries[k]]

\* the cache without expired_keys
without_expired(entries, current_time, ttl_seconds) ==
    [k \in {e \in DOMAIN entries :
                ~(current_time - entries[e].t >= ttl_seconds)} |->
        entries[k]]

\* what the wrapped function returns when called at time t
func_result(args, kwargs, t) == [args |-> args, kwargs |-> kwargs, at |-> t]

FuncError == [type |-> "RuntimeError"]

\* cache_result.wrapper called at t: the function takes dur seconds and
\* returns or raises; gap seconds pass between the time.time() of the stored
\* entry and the one of the purge
cached_call(m, args, kwargs, t, dur, gap, raises) ==
    LET key == key_of(args, kwargs)
    IN  IF /\ key \in DOMAIN m.cache
           /\ entry_fresh(m.cache[key].t, t, m.ttl_seconds)
        THEN [memo |-> m, ret |-> m.cache[key].value, exc |-> NoExc,
              invoked |-> FALSE, stored_at |-> t, current_time |-> t]
        ELSE IF raises
        THEN [memo |-> m, ret |-> None, exc |-> FuncError,
              invoked |-> TRUE, stored_at |-> t + dur,
              current_time |-> t + dur]
        ELSE LET result == func_result(args, kwargs, t)
                 stored == (key :> [value |-> result, t |-> t + dur])
                           @@ m.cache
             IN  [memo |-> [m EXCEPT !.cache =
                               without_expired(stored, t + dur + gap,
                                               m.ttl_seconds)],
                  ret |-> result, exc |-> NoExc, invoked |-> TRUE,
                  stored_at |-> t + dur, current_time |-> t + dur + gap]

\* what an attempt of a function wrapped by retry_on_failure does
Returns(value) == [kind |-> "return", value |-> value]

Raises(exc) == [kind |-> "raise", exc |-> exc]

\* an exception that is not an Exception, such as KeyboardInterrupt
Exits(exc) == [kind |-> "exit", exc |-> exc]

CallEvent(attempt) == [op |-> "call", attempt |-> attempt, seconds |-> 0]

SleepEvent(attempt, seconds) ==
    [op |-> "sleep", attempt |-> attempt, seconds |-> seconds]

\* a wrapper that sleeps after every failed attempt
sleeps_always(attempt, max_retries) == TRUE

\* attempt < max_retries - 1
sleeps_after(attempt, max_retries) == attempt < max_retries - 1

\* the for loop of retry_on_failure.wrapper from `attempt' on, and the raise
\* that follows it
RECURSIVE retry_loop(_, _, _, _, _, _)
retry_loop(attempt, max_retries, delay, outcomes, events, last_exception) ==
    IF attempt >= max_retries
    THEN [events |-> events, ret |-> None,
          exc |-> IF last_exception = None THEN TypeError
                  ELSE last_exception]
    ELSE LET o    == outcomes[attempt + 1]
             made == Append(events, CallEvent(attempt))
         IN  IF o.kind = "return"
             THEN [events |-> made, ret |-> o.value, exc |-> NoExc]
             ELSE IF o.kind = "exit"
             THEN [events |-> made, ret |-> None, exc |-> o.exc]
             ELSE retry_loop(attempt + 1, max_retries, delay, outcomes,
                             IF sleeps_after(attempt, max_retries)
                             THEN Append(made, SleepEvent(attempt, delay))
                             ELSE made,
                             o.exc)

\* retry_on_failure(max_retries, delay)(func)()
retry_call(max_retries, delay, outcomes) ==
    retry_loop(0, max_retries, delay, outcomes, <<>>, None)

\* the greatest max_retries of the specification
MaxRetries == 3

RetryDelays == {1, 2}

\* the exception raised by attempt i of a call
AttemptError(i) == [type |-> "ApiRequestError", attempt |-> i]

\* what the attempts of a call may do, attempt by attempt
AttemptOutcomes ==
    {[i \in 1..MaxRetries |->
         IF kinds[i] = "return" THEN Returns(7)
         ELSE IF kinds[i] = "raise" THEN Raises(AttemptError(i))
         ELSE Exits([type |-> "KeyboardInterrupt"])] :
        kinds \in [1..MaxRetries -> {"return", "raise", "exit"}]}

\* the seconds slept in a sequence of events
RECURSIVE slept(_)
slept(events) ==
    IF events = <<>> THEN 0
    ELSE events[1].seconds + slept(Tail(events))

InitMemo ==
    /\ portfolios = NoPortfolios
    /\ rates = Absent
    /\ now = 0
    /\ UsersIdle
    /\ CliIdle
    /\ \E ttl \in MemoTtls : memo = [ttl_seconds |-> ttl, cache |-> <<>>]
    /\ scheduler = NewScheduler
    /\ client = NewClient
    /\ DbIdle
    /\ pf = [user_id |-> 1, wallets |-> EmptyWallets]
    /\ res = [op |-> "init"]

\* time passes between two calls
Elapse ==
    /\ now < MaxMemoNow
    /\ now' = now + 1
    /\ res' = [op |-> "elapse"]
    /\ UNCHANGED <<pf, portfolios, rates, userVars, cliVars, svcVars, dbVars>>

\* a call of the function wrapped by cache_result
CachedCall(call, dur, gap, raises) ==
    \E out \in {cached_call(memo, call.args, call.kwargs, now, dur, gap,
                            raises)} :
        /\ out.current_time <= MaxMemoNow
        /\ memo' = out.memo
        /\ now' = out.current_time
        /\ res' = [op |-> "cached_call",
                   key |-> key_of(call.args, call.kwargs), t |-> now,
                   before |-> memo.cache, invoked |-> out.invoked,
                   ret |-> out.ret, exc |-> out.exc,
                   stored_at |-> out.stored_at]
        /\ UNCHANGED <<pf, portfolios, rates, userVars, cliVars, scheduler,
                       client, dbVars>>

\* a call of a function wrapped by retry_on_failure(max_retries, delay)
RetryCall(max_retries, delay, outcomes) ==
    \E out \in {retry_call(max_retries, delay, outcomes)} :
        /\ now + slept(out.events) <= MaxMemoNow
        /\ now' = now + slept(out.events)
        /\ res' = [op |-> "retry_call", max_retries |-> max_retries,
                   delay |-> delay, outcomes |-> outcomes,
                   events |-> out.events, ret |-> out.ret, exc |-> out.exc,
                   t |-> now]
        /\ UNCHANGED <<pf, portfolios, rates, userVars, cliVars, svcVars,
                       dbVars>>

NextMemo ==
    \/ Elapse
    \/ \E call \in MemoCalls, dur \in 0..1, gap \in 0..1,
          raises \in BOOLEAN :
           CachedCall(call, dur, gap, raises)

SpecMemo == InitMemo /\ [][NextMemo]_vars

InitRetry ==
    /\ AppIdle
    /\ pf = [user_id |-> 1, wallets |-> EmptyWallets]
    /\ res = [op |-> "init"]

NextRetry ==
    \/ \E n \in 0..MaxRetries, delay \in RetryDelays,
          outcomes \in AttemptOutcomes :
           RetryCall(n, delay, outcomes)

SpecRetry == InitRetry /\ [][NextRetry]_vars

\* the attempts the wrapper made, in order
Attempts ==
    SelectSeq(res.events, LAMBDA e : e.op = "call")

\* attempt i (from 1) of the last call raised an Exception
Failed(i) == res.outcomes[i].kind = "raise"

\* C27: a function wrapped by retry_on_failure(max_retries, delay) is
\* invoked at most max_retries times; the first attempt that returns ends
\* the retries and its value is returned; a sleep of `delay' happens only
\* between a failed attempt and the next one; when all max_retries attempts
\* raise, the exception of the last attempt is raised
C27_RetryBounded ==
    res.op = "retry_call" =>
        LET n == res.max_retries
            made == Len(Attempts)
        IN  /\ made <= n
            /\ \A i \in 1..made : Attempts[i] = CallEvent(i - 1)
            /\ \A i \in 1..n :
                   (/\ res.outcomes[i].kind = "return"
                    /\ \A j \in 1..(i - 1) : Failed(j))
                       => /\ made = i
                          /\ res.exc = NoExc
                          /\ res.ret = res.outcomes[i].value
            /\ \A k \in 1..Len(res.events) :
                   res.events[k].op = "sleep"
                       => /\ res.events[k].seconds = res.delay
                          /\ 1 < k /\ k < Len(res.events)
                          /\ res.events[k - 1].op = "call"
                          /\ Failed(res.events[k - 1].attempt + 1)
                          /\ res.events[k + 1].op = "call"
            /\ \A k \in 1..(Len(res.events) - 1) :
                   res.events[k].op = "call"
                       => res.events[k + 1].op = "sleep"
            /\ (n >= 1 /\ \A i \in 1..n : Failed(i))
                   => /\ made = n
                      /\ res.exc = res.outcomes[n].exc
                      /\ res.t + (n - 1) * res.delay = now

\* three attempts were made, the first two raised and were each followed by
\* a sleep, the third returned
C27_Witness ==
    /\ res.op = "retry_call"
    /\ res.max_retries = 3
    /\ Len(res.events) = 5
    /\ res.exc = NoExc
    /\ res.ret = 7

\* two attempts raised and the exception of the second one was raised
C27_WitnessExhausted ==
    /\ res.op = "retry_call"
    /\ res.max_retries = 2
    /\ Failed(1)
    /\ res.exc = AttemptError(2)
    /\ Len(res.events) = 3

\* the last call of the cached function found an entry under its key
HadEntry == res.op = "cached_call" /\ res.key \in DOMAIN res.before

\* the age of that entry when the call was made
EntryAge == res.t - res.before[res.key].t

\* C28: a call of a function wrapped by cache_result(ttl) whose arguments
\* were cached less than ttl seconds ago returns the cached value without
\* invoking the function; a call whose entry is ttl seconds old or older
\* invokes the function again and, when the function returns, replaces the
\* entry by the new value (the entry standing when the purge follows the
\* store by less than ttl seconds)
C28_HitWithinTtl ==
    HadEntry =>
        /\ EntryAge < memo.ttl_seconds
               => /\ ~res.invoked
                  /\ res.exc = NoExc
                  /\ res.ret = res.before[res.key].value
                  /\ memo.cache = res.before
        /\ EntryAge >= memo.ttl_seconds
               => /\ res.invoked
                  /\ (res.exc = NoExc /\ now - res.stored_at < memo.ttl_seconds)
                         => /\ res.key \in DOMAIN memo.cache
                            /\ memo.cache[res.key] =
                                   [value |-> res.ret, t |-> res.stored_at]
                            /\ res.ret.at = res.t
                            /\ res.ret # res.before[res.key].value

\* a call one second after its value was cached under ttl 2 was served from
\* the cache
C28_Witness ==
    /\ HadEntry
    /\ memo.ttl_seconds = 2
    /\ EntryAge = 1
    /\ ~res.invoked
    /\ res.ret.at < res.t

\* a call two seconds after its value was cached under ttl 2 invoked the
\* function and stored the new value
C28_WitnessExpired ==
    /\ HadEntry
    /\ memo.ttl_seconds = 2
    /\ EntryAge = 2
    /\ res.invoked
    /\ res.exc = NoExc
    /\ memo.cache[res.key].value.at = res.t

\* the entries the cache holds that are older than ttl_seconds
Expired ==
    {k \in DOMAIN memo.cache : now - memo.cache[k].t > memo.ttl_seconds}

\* C29 as stated: after every call of a function wrapped by
\* cache_result(ttl) that returns, a hit or a miss, the cache holds no entry
\* older than ttl
C29_NoExpiredEntry ==
    (res.op = "cached_call" /\ res.exc = NoExc) => Expired = {}

\* C29: a call that invokes the function and gets its value ends with a
\* purge of every entry of age ttl or more, so that the cache holds no such
\* entry when it returns; a call served from the cache and a call whose
\* function raises leave the cache as it was, expired entries of other keys
\* included
C29_PurgeOnMiss ==
    res.op = "cached_call" =>
        IF res.invoked /\ res.exc = NoExc
        THEN /\ \A k \in DOMAIN memo.cache :
                    now - memo.cache[k].t < memo.ttl_seconds
             /\ \A k \in DOMAIN res.before \ {res.key} :
                    now - res.before[k].t < memo.ttl_seconds
                        => /\ k \in DOMAIN memo.cache
                           /\ memo.cache[k] = res.before[k]
        ELSE memo.cache = res.before

\* a call was served from the cache while the entry of another key, older
\* than ttl, stayed in the cache
C29_Witness ==
    /\ res.op = "cached_call"
    /\ ~res.invoked
    /\ Expired # {}

\* a call that invoked the function purged the expired entry of another key
C29_WitnessPurged ==
    /\ res.op = "cached_call"
    /\ res.invoked
    /\ res.exc = NoExc
    /\ \E k \in DOMAIN res.before : k # res.key /\ k \notin DOMAIN memo.cache

(***************************************************************************)
(* RatesScheduler (parser_service/scheduler.py).  The caller's thread      *)
(* calls start() and stop(); every thread started runs _scheduler_loop,    *)
(* one step at a time; the clock is the variable now, in seconds.  A       *)
(* worker is [pc, now, until, gen]:                                        *)
(*   pc     "test"   about to evaluate `while self.is_running'             *)
(*          "wake"   in the loop body, about to read datetime.now()        *)
(*          "update" inside _perform_scheduled_update()                    *)
(*          "sleep"  inside time.sleep(60)                                 *)
(*          "dead"   the loop has exited                                   *)
(*   now    the local variable now of the loop body                        *)
(*   until  the time its sleep ends                                        *)
(*   gen    the number of threads started when it last passed its test     *)
(***************************************************************************)
\* config.UPDATE_INTERVAL_MINUTES * 60
update_interval == 300

\* sleep_time of the loop
sleep_time == 60

\* the timeout of scheduler_thread.join
join_timeout == 5

\* the last second of the clock of this specification
MaxSchedNow == 305

\* the greatest number of start() and stop() calls
MaxCalls == 3

NewWorker == [pc |-> "test", now |-> 0, until |-> 0, gen |-> 0]

\* the threads whose loop has not exited
Alive(s) == {i \in DOMAIN s.workers : s.workers[i].pc # "dead"}

\* RatesScheduler.start(): the object after the call and the value returned
start(s) ==
    IF s.is_running
    THEN [s |-> [s EXCEPT !.calls = @ + 1], ret |-> FALSE]
    ELSE [s |-> [s EXCEPT !.is_running = TRUE, !.calls = @ + 1,
                          !.workers = Append(@, NewWorker),
                          !.overlap = @ \/ Alive(s) # {}],
          ret |-> TRUE]

\* RatesScheduler.stop() up to the join of scheduler_thread, begun at time t
stop(s, t) ==
    [s EXCEPT !.is_running = FALSE, !.calls = @ + 1,
              !.joining = IF /\ s.workers # <<>>
                             /\ Len(s.workers) \in Alive(s)
                          THEN [since |-> t]
                          ELSE None]

\* the time t is past the clock of the model or at its end
AtOrPast(t, deadline) == t >= deadline \/ t = MaxSchedNow

\* scheduler_thread.join(timeout=5) returns at time t
join_returns(s, t) ==
    /\ s.joining # None
    /\ \/ Len(s.workers) \notin Alive(s)
       \/ AtOrPast(t, s.joining.since + join_timeout)

\* a loop that never looks at is_running
loop_forever(s) == TRUE

\* the condition of `while self.is_running'
loop_condition(s) == s.is_running

\* a loop body that updates on every wake
is_due_always(next_update_time, t) == TRUE

\* self.next_update_time is None or now >= self.next_update_time
is_due(next_update_time, t) ==
    next_update_time = None \/ t >= next_update_time.at

\* worker i evaluates the condition of its loop
loop_test(s, i) ==
    IF loop_condition(s)
    THEN [s EXCEPT !.workers[i].pc = "wake",
                   !.workers[i].gen = Len(s.workers)]
    ELSE [s EXCEPT !.workers[i].pc = "dead"]

\* worker i reads the clock at time t and enters the update or the sleep
loop_wake(s, i, t) ==
    IF is_due(s.next_update_time, t)
    THEN [s EXCEPT !.workers[i].pc = "update", !.workers[i].now = t,
                   !.last_update = [at |-> t]]
    ELSE [s EXCEPT !.workers[i].pc = "sleep",
                   !.workers[i].until = t + sleep_time]

\* _perform_scheduled_update() of worker i has returned at time t: the
\* next update is planned and the sleep begins
loop_updated(s, i, t) ==
    [s EXCEPT !.next_update_time =
                  [at |-> s.workers[i].now + update_interval],
              !.workers[i].pc = "sleep", !.workers[i].now = 0,
              !.workers[i].until = t + sleep_time]

\* time.sleep(60) of worker i has returned
loop_slept(s, i) ==
    [s EXCEPT !.workers[i].pc = "test", !.workers[i].until = 0]

InitScheduler ==
    /\ AppIdle
    /\ pf = [user_id |-> 1, wallets |-> EmptyWallets]
    /\ res = [op |-> "init"]

SchedFrame ==
    UNCHANGED <<pf, portfolios, userVars, cliVars, memo, client, dir, inodes,
                lock, threads, saves>>

\* the times at which a timer of the scheduler expires: the join of stop(),
\* the sleep of a worker, and the time of the next update
Deadlines(s) ==
    {s.joining.since + join_timeout : x \in {y \in {1} : s.joining # None}}
    \cup {s.workers[i].until :
              i \in {j \in DOMAIN s.workers : s.workers[j].pc = "sleep"}}
    \cup {s.next_update_time.at :
              x \in {y \in {1} : s.next_update_time # None}}

\* time passes until the clock reads t, a time at which a timer expires
Pass(t) ==
    /\ now < t
    /\ now' = IF t <= MaxSchedNow THEN t ELSE MaxSchedNow
    /\ now' > now
    /\ res' = [op |-> "pass"]
    /\ UNCHANGED <<rates, exchange_rates, cache, scheduler>>
    /\ SchedFrame

\* scheduler.start() on the caller's thread
Start ==
    /\ scheduler.joining = None
    /\ scheduler.calls < MaxCalls
    /\ \E out \in {start(scheduler)} :
           /\ scheduler' = out.s
           /\ res' = [op |-> "start", ret |-> out.ret,
                      was_running |-> scheduler.is_running,
                      threads |-> Len(scheduler.workers)]
    /\ UNCHANGED <<rates, exchange_rates, cache, now>>
    /\ SchedFrame

\* scheduler.stop() on the caller's thread, up to the join
Stop ==
    /\ scheduler.joining = None
    /\ scheduler.calls < MaxCalls
    /\ scheduler' = stop(scheduler, now)
    /\ res' = [op |-> "stop"]
    /\ UNCHANGED <<rates, exchange_rates, cache, now>>
    /\ SchedFrame

\* the join of stop() returns
StopReturns ==
    /\ join_returns(scheduler, now)
    /\ scheduler' = [scheduler EXCEPT !.joining = None]
    /\ res' = [op |-> "stop_returns"]
    /\ UNCHANGED <<rates, exchange_rates, cache, now>>
    /\ SchedFrame

\* worker i evaluates `while self.is_running'
LoopTest(i) ==
    /\ i \in DOMAIN scheduler.workers
    /\ scheduler.workers[i].pc = "test"
    /\ scheduler' = loop_test(scheduler, i)
    /\ res' = [op |-> "loop_test", worker |-> i]
    /\ UNCHANGED <<rates, exchange_rates, cache, now>>
    /\ SchedFrame

\* worker i reads the clock and decides whether to update
LoopWake(i) ==
    /\ i \in DOMAIN scheduler.workers
    /\ scheduler.workers[i].pc = "wake"
    /\ scheduler' = loop_wake(scheduler, i, now)
    /\ res' = [op |-> "loop_wake", worker |-> i]
    /\ UNCHANGED <<rates, exchange_rates, cache, now>>
    /\ SchedFrame

\* the update of worker i, self.updater.run_update(), returns
LoopUpdated(i, crypto) ==
    /\ i \in DOMAIN scheduler.workers
    /\ scheduler.workers[i].pc = "update"
    /\ \E out \in {run_update(NoFilter,
                              ("CoinGecko" :> crypto)
                              @@ ("ExchangeRate-API" :>
                                     fiat_fetch_rates("", FetchOk(NoRates))),
                              rates, cache, exchange_rates, now, TRUE,
                              TRUE)} :
           /\ rates' = out.rates
           /\ exchange_rates' = out.history
           /\ cache' = out.entry
    /\ scheduler' = loop_updated(scheduler, i, now)
    /\ res' = [op |-> "loop_updated", worker |-> i]
    /\ UNCHANGED now
    /\ SchedFrame

\* the sleep of worker i ends
LoopSlept(i) ==
    /\ i \in DOMAIN scheduler.workers
    /\ scheduler.workers[i].pc = "sleep"
    /\ AtOrPast(now, scheduler.workers[i].until)
    /\ scheduler' = loop_slept(scheduler, i)
    /\ res' = [op |-> "loop_slept", worker |-> i]
    /\ UNCHANGED <<rates, exchange_rates, cache, now>>
    /\ SchedFrame

\* what CoinGecko answers to the request of a scheduled update
ScheduledFetches == {FetchOk(<<"BTC", "USD">> :> Frac(40000, 1))}

\* a step of the thread of worker i
LoopStep(i) ==
    \/ LoopTest(i)
    \/ LoopWake(i)
    \/ \E crypto \in ScheduledFetches : LoopUpdated(i, crypto)
    \/ LoopSlept(i)

NextScheduler ==
    \/ \E t \in Deadlines(scheduler) : Pass(t)
    \/ Start
    \/ Stop
    \/ StopReturns
    \/ \E i \in DOMAIN scheduler.workers : LoopStep(i)

SpecScheduler == InitScheduler /\ [][NextScheduler]_vars

\* the threads run and time passes
SpecSchedulerFair ==
    /\ SpecScheduler
    /\ \A i \in 1..MaxCalls : WF_vars(LoopStep(i))
    /\ WF_vars(\E t \in Deadlines(scheduler) : Pass(t))

\* the workers that passed their loop test since the last thread was started
Looping ==
    {i \in Alive(scheduler) :
         scheduler.workers[i].gen = Len(scheduler.workers)}

\* C24: whatever the order of the start() and stop() calls, at most one
\* worker loop is live: start() on a running scheduler starts no thread and
\* returns False, and a start() after a stop() never leaves a worker started
\* before still looping next to the new one
C24_OneWorkerLoop ==
    /\ Cardinality(Looping) <= 1
    /\ (res.op = "start" /\ res.was_running)
           => ~res.ret /\ Len(scheduler.workers) = res.threads

\* start() on a running scheduler starts no thread and returns False
C24_StartWhileRunning ==
    (res.op = "start" /\ res.was_running)
        => ~res.ret /\ Len(scheduler.workers) = res.threads

\* start() was called on a running scheduler
C24_Witness ==
    /\ res.op = "start"
    /\ res.was_running
    /\ Alive(scheduler) = {1}

\* two workers loop side by side
C24_WitnessTwo == Cardinality(Looping) = 2

\* worker i takes a step
Steps(i) ==
    /\ i \in DOMAIN scheduler.workers
    /\ scheduler'.workers[i] # scheduler.workers[i]

\* worker i starts a scheduled update in this step
StartsUpdate(i) ==
    /\ Steps(i)
    /\ scheduler.workers[i].pc # "update"
    /\ scheduler'.workers[i].pc = "update"

\* a worker that evaluates its loop condition while is_running is false
\* exits and starts no update afterwards; is_running turns true in a start()
\* only
StoppedLoop ==
    /\ \A i \in DOMAIN scheduler.workers :
           /\ (Steps(i) /\ scheduler.workers[i].pc = "test"
                   /\ ~scheduler.is_running)
                  => scheduler'.workers[i].pc = "dead"
           /\ scheduler.workers[i].pc = "dead"
                  => scheduler'.workers[i].pc = "dead"
           /\ StartsUpdate(i) => scheduler.workers[i].pc = "wake"
    /\ (~scheduler.is_running /\ scheduler'.is_running)
           => res'.op = "start" /\ res'.ret

\* C25: after stop() with no later start() the worker loop exits in the end
\* (the threads being scheduled fairly); it starts no scheduled update once
\* it has evaluated its loop condition again, and is_running stays false
C25_StopEndsLoop ==
    /\ [][StoppedLoop]_vars
    /\ (<>[](~scheduler.is_running)) => <>[](Alive(scheduler) = {})

\* the scheduler was started and stopped, and its worker has exited
C25_Witness ==
    /\ scheduler.workers # <<>>
    /\ ~scheduler.is_running
    /\ Alive(scheduler) = {}
    /\ res.op = "loop_test"

\* worker i leaves the reading of the clock in this step
Wakes(i) == Steps(i) /\ scheduler.workers[i].pc = "wake"

\* the wake of worker i is at or past the time of the next update
DueNow == is_due(scheduler.next_update_time, now)

\* a wake starts an update exactly when no update is planned or its time
\* has come, and the end of an update plans the next one at the time of
\* that wake plus the interval
WakeRule(i) ==
    /\ Wakes(i) => (scheduler'.workers[i].pc = "update"
                       <=> \/ scheduler.next_update_time = None
                           \/ now >= scheduler.next_update_time.at)
    /\ StartsUpdate(i) => Wakes(i) /\ scheduler'.last_update = [at |-> now]
    /\ (Steps(i) /\ scheduler.workers[i].pc = "update")
           => scheduler'.next_update_time =
                  [at |-> scheduler.workers[i].now + update_interval]

\* an update that starts is at least the interval after the one before
Spaced(i) ==
    (StartsUpdate(i) /\ scheduler.last_update # None)
        => now - scheduler.last_update.at >= update_interval

\* C26: the worker updates on its first wake (no update planned) and then
\* only on a wake with now >= next_update_time, planning the next update at
\* that wake's time plus the interval; the start times of two consecutive
\* scheduled updates are never closer than the interval, and every wake at
\* or past next_update_time starts an update
C26_UpdateSpacing ==
    [][\A i \in DOMAIN scheduler.workers : WakeRule(i) /\ Spaced(i)]_vars

\* the same while no thread was started next to a live one
C26_SpacingOfOneWorker ==
    [][\A i \in DOMAIN scheduler.workers :
           /\ WakeRule(i)
           /\ ~scheduler.overlap => Spaced(i)]_vars

\* a worker started its second update 300 seconds after its first
C26_Witness ==
    /\ ~scheduler.overlap
    /\ scheduler.last_update = [at |-> update_interval]
    /\ scheduler.workers[1].pc = "update"

\* a second worker started an update while the first update was running
C26_WitnessClose ==
    /\ Len(scheduler.workers) = 2
    /\ scheduler.workers[1].pc = "update"
    /\ scheduler.workers[2].pc = "update"
    /\ scheduler.workers[1].now = 0
    /\ scheduler.workers[2].now = join_timeout

(***************************************************************************)
(* DatabaseManager.update_json (infra/database.py): load_json, the         *)
(* updater_func and save_json, run by two threads of one process.  The     *)
(* updater_func of a thread returns its argument with one more key, or     *)
(* None.                                                                   *)
(***************************************************************************)
\* the key the updater_func of a thread sets
KeyOf(t) == IF t = 1 THEN "a" ELSE "b"

\* the keys of a document
keys_of(doc) ==
    IF doc = "{a}" THEN {"a"}
    ELSE IF doc = "{b}" THEN {"b"}
    ELSE IF doc = "{a, b}" THEN {"a", "b"}
    ELSE {}

\* the document holding the keys ks
doc_of(ks) ==
    IF ks = {"a"} THEN "{a}"
    ELSE IF ks = {"b"} THEN "{b}"
    ELSE IF ks = {"a", "b"} THEN "{a, b}"
    ELSE Default

\* updater_func(current_data): a copy of the document with the key set
updater_func(key, current_data) == doc_of(keys_of(current_data) \cup {key})

\* an update_json that runs inside self._lock from its first line
update_holds_lock_always == TRUE

\* update_json takes self._lock for its own body: it does not, load_json
\* and updater_func run before save_json takes it
update_holds_lock == FALSE

\* a thread calls db.update_json(filename, updater_func)
CallUpdate(t) ==
    /\ threads[t].pc = "idle"
    /\ update_holds_lock => lock = 0
    /\ lock' = IF update_holds_lock THEN t ELSE lock
    /\ threads' = [threads EXCEPT
                     ![t] = [IdleThread EXCEPT !.pc = "load_check",
                                               !.op = "update_json",
                                               !.upd = "load",
                                               !.key = KeyOf(t)]]
    /\ UNCHANGED <<cache, dir, inodes, saves>>
    /\ DbFrame

\* updated_data = updater_func(current_data); a load_json that raised, or
\* an updater_func that returns None, ends the call with None
UpdateApply(t, declines) ==
    /\ threads[t].pc = "update_apply"
    /\ threads' =
           IF threads[t].ret = KeyError \/ declines
           THEN [threads EXCEPT ![t].pc = "idle", ![t].upd = "none",
                                ![t].ret = None]
           ELSE [threads EXCEPT
                   ![t].pc = "save_lock", ![t].upd = "save",
                   ![t].read = threads[t].ret.value,
                   ![t].data = updater_func(threads[t].key,
                                            threads[t].ret.value)]
    /\ UNCHANGED <<cache, dir, inodes, lock, saves>>
    /\ DbFrame

\* return updated_data if success else None
UpdateReturn(t) ==
    /\ threads[t].pc = "update_return"
    /\ threads' = [threads EXCEPT
                     ![t].pc = "idle", ![t].upd = "none",
                     ![t].ret = IF threads[t].ret = Returned(TRUE)
                                THEN Returned(threads[t].data)
                                ELSE None]
    /\ UNCHANGED <<cache, dir, inodes, lock, saves>>
    /\ DbFrame

NextUpdate ==
    \E t \in Threads :
        \/ CallUpdate(t)
        \/ \E declines \in BOOLEAN : UpdateApply(t, declines)
        \/ UpdateReturn(t)
        \/ ClearCache(t)
        \/ LoadCheck(t)
        \/ LoadHit(t)
        \/ LoadExists(t)
        \/ LoadDefault(t)
        \/ LoadOpen(t)
        \/ LoadRead(t)
        \/ LoadStore(t)
        \/ SaveAcquire(t)
        \/ SaveOpen(t)
        \/ \E ok \in BOOLEAN : SaveWrite(t, ok)
        \/ SaveReplace(t)
        \/ SaveCache(t)
        \/ SaveReturn(t)

SpecUpdate == InitDb /\ [][NextUpdate]_vars

\* the document stored under the filename
StoredDoc ==
    IF dir.target = 0 THEN Default ELSE loads(inodes[dir.target]).data

\* the update_json of thread t has returned its document
UpdateDone(t) ==
    /\ threads[t].pc = "idle"
    /\ threads[t].op = "update_json"
    /\ threads[t].ret = Returned(threads[t].data)

\* both threads have had an update_json return its document, built from
\* the same loaded document, which held neither key
SameSnapshot ==
    /\ \A t \in Threads : UpdateDone(t)
    /\ threads[1].read = threads[2].read
    /\ keys_of(threads[1].read) \cap {KeyOf(1), KeyOf(2)} = {}

\* thread t is inside update_json before its save_json
BeforeSave(t) ==
    /\ threads[t].op = "update_json"
    /\ threads[t].upd = "load"

Truncated(d) == <<dumps(d)[1]>>

\* a file holding bytes that are not UTF-8
NotUtf8 == <<[bytes |-> "ff"]>>

\* the path is a directory: open() raises IsADirectoryError
Directory == <<[directory |-> TRUE]>>

FileContents ==
    {dumps(d) : d \in Docs} \cup {Truncated(d) : d \in Docs}
        \cup {NotUtf8, Directory}

\* the values passed as default: None or a document
DefaultArgs == {None, Entry("[]"), Entry("D2")}

\* the subclasses of OSError, of which IOError is an alias
OSErrors == {"OSError", "IOError", "IsADirectoryError", "PermissionError"}

\* open(filepath, 'r', encoding='utf-8') and json.load(f): [exc, data]
json_load(content) ==
    IF content = Directory
    THEN [exc |-> [type |-> "IsADirectoryError"], data |-> Default]
    ELSE IF content = NotUtf8
    THEN [exc |-> [type |-> "UnicodeDecodeError"], data |-> Default]
    ELSE loads(content)

\* except Exception: every error of the read is caught
except_any_error(exc) == TRUE

\* except (json.JSONDecodeError, IOError)
except_load_errors(exc) ==
    exc.type = "JSONDecodeError" \/ exc.type \in OSErrors

\* default if default is not None else {}
default_or_empty(default) ==
    IF default = None THEN Default ELSE default.data

\* db.load_json(filename, default): [ret, exc, cache]
load_json(c, d, ino, default) ==
    IF c # None
    THEN [ret |-> Returned(c.data), exc |-> NoExc, cache |-> c]
    ELSE IF d.target = 0
    THEN [ret |-> Returned(default_or_empty(default)), exc |-> NoExc,
          cache |-> Entry(default_or_empty(default))]
    ELSE IF json_load(ino[d.target]).exc = NoExc
    THEN [ret |-> Returned(json_load(ino[d.target]).data), exc |-> NoExc,
          cache |-> Entry(json_load(ino[d.target]).data)]
    ELSE IF except_load_errors(json_load(ino[d.target]).exc)
    THEN [ret |-> Returned(default_or_empty(default)), exc |-> NoExc,
          cache |-> c]
    ELSE [ret |-> None, exc |-> json_load(ino[d.target]).exc, cache |-> c]

\* db.save_json(filename, data): [ret, cache, dir, inodes]; with ok false
\* a write of json.dump raises IOError and the temp file stays behind
save_json(c, d, ino, data, ok) ==
    IF ok
    THEN [ret |-> Returned(TRUE), cache |-> Entry(data),
          dir |-> [target |-> 1, tmp |-> 0],
          inodes |-> [ino EXCEPT ![1] = dumps(data), ![2] = <<>>]]
    ELSE [ret |-> Returned(FALSE), cache |-> c,
          dir |-> [d EXCEPT !.tmp = 2],
          inodes |-> [ino EXCEPT ![2] = Truncated(data)]]

\* db.clear_cache(filename)
clear_cache(c) == None

InitStore == InitDb

StoreFrame ==
    UNCHANGED <<pf, tradeVars, userVars, cliVars, svcVars, exchange_rates,
                lock, threads, saves>>

LoadJson(default) ==
    /\ LET out == load_json(cache, dir, inodes, default)
       IN  /\ cache' = out.cache
           /\ res' = [op |-> "load_json", default |-> default,
                      ret |-> out.ret, exc |-> out.exc]
    /\ UNCHANGED <<dir, inodes>>
    /\ StoreFrame

SaveJson(data, ok) ==
    /\ LET out == save_json(cache, dir, inodes, data, ok)
       IN  /\ cache' = out.cache
           /\ dir' = out.dir
           /\ inodes' = out.inodes
           /\ res' = [op |-> "save_json", default |-> Entry(data),
                      ret |-> out.ret, exc |-> NoExc]
    /\ StoreFrame

ClearCacheCall ==
    /\ cache' = clear_cache(cache)
    /\ res' = [op |-> "clear_cache", default |-> None, ret |-> None,
               exc |-> NoExc]
    /\ UNCHANGED <<dir, inodes>>
    /\ StoreFrame

\* another process writes the file
WriteFile(content) ==
    /\ dir' = [dir EXCEPT !.target = 1]
    /\ inodes' = [inodes EXCEPT ![1] = content]
    /\ res' = [op |-> "write_file", default |-> None, ret |-> None,
               exc |-> NoExc]
    /\ UNCHANGED cache
    /\ StoreFrame

\* another process removes the file
RemoveFile ==
    /\ dir.target # 0
    /\ dir' = [dir EXCEPT !.target = 0]
    /\ inodes' = [inodes EXCEPT ![1] = <<>>]
    /\ res' = [op |-> "remove_file", default |-> None, ret |-> None,
               exc |-> NoExc]
    /\ UNCHANGED cache
    /\ StoreFrame

NextStore ==
    \/ \E default \in DefaultArgs : LoadJson(default)
    \/ \E data \in Docs, ok \in BOOLEAN : SaveJson(data, ok)
    \/ ClearCacheCall
    \/ \E content \in FileContents : WriteFile(content)
    \/ RemoveFile

SpecStore == InitStore /\ [][NextStore]_vars

\* the step is a call of op
StoreCall(op) == res'.op = op

\* the file exists and reading it fails with an error of kind
ReadFails(caught(_)) ==
    /\ dir.target # 0
    /\ json_load(inodes[dir.target]).exc # NoExc
    /\ caught(json_load(inodes[dir.target]).exc)

\* the load of this step returned v without raising
LoadReturned(v) == res'.exc = NoExc /\ res'.ret = Returned(v)

\* what the claim says of one step, the failed reads being those of kind
CacheRule(caught(_)) ==
    /\ StoreCall("load_json") /\ cache # None =>
           LoadReturned(cache.data) /\ cache' = cache
    /\ StoreCall("load_json") /\ cache = None /\ dir.target = 0 =>
           /\ LoadReturned(default_or_empty(res'.default))
           /\ cache' = Entry(default_or_empty(res'.default))
    /\ /\ StoreCall("load_json")
       /\ cache = None
       /\ dir.target # 0
       /\ json_load(inodes[dir.target]).exc = NoExc
       => /\ LoadReturned(json_load(inodes[dir.target]).data)
          /\ cache' = Entry(json_load(inodes[dir.target]).data)
    /\ StoreCall("load_json") /\ cache = None /\ ReadFails(caught) =>
           /\ LoadReturned(default_or_empty(res'.default))
           /\ cache' = None
    /\ StoreCall("save_json") /\ res'.ret = Returned(TRUE) =>
           cache' = res'.default
    /\ StoreCall("save_json") /\ res'.ret = Returned(FALSE) =>
           cache' = cache
    /\ StoreCall("write_file") \/ StoreCall("remove_file") =>
           cache' = cache

\* C31: once the filename is in the cache (loaded from a file that parsed,
\* loaded with the file absent, or saved) every load_json returns the
\* cached document whatever the file holds and whatever default is passed,
\* until clear_cache or a save_json; a load that fails to parse or read
\* the file returns the default and leaves the cache without an entry
C31_CachedUntilCleared == [][CacheRule(except_any_error)]_vars

\* the same with the failed reads being a JSONDecodeError or an OSError
C31_CachedOrCaughtError == [][CacheRule(except_load_errors)]_vars

\* a load served from the cache while the file holds another document and
\* another default is passed
C31_Witness ==
    /\ res.op = "load_json"
    /\ cache = Entry("D1")
    /\ res.ret = Returned("D1")
    /\ res.default = Entry("D2")
    /\ dir.target # 0
    /\ inodes[dir.target] = dumps("D2")

\* a load of a file that is not UTF-8 has raised and the cache is empty
C31_WitnessRaised ==
    /\ res.op = "load_json"
    /\ res.exc = [type |-> "UnicodeDecodeError"]
    /\ cache = None
(***************************************************************************)
(* RateManager.get_rate as a function of rates.json and the two codes:     *)
(* the file is absent or holds any subset of the records below, each with  *)
(* a rate and a time of its own.                                           *)
(***************************************************************************)
\* datetime.now() while get_rate is asked
BridgeNow == 10

\* the records rates.json can hold; XXX is no currency of the registry
BridgeRecords ==
    (<<"EUR", "USD">> :> RateRec(Frac(109, 100), 1)) @@
    (<<"USD", "EUR">> :> RateRec(Frac(92, 100), 2)) @@
    (<<"USD", "RUB">> :> RateRec(Frac(90, 1), 3)) @@
    (<<"RUB", "USD">> :> RateRec(Frac(1, 100), 4)) @@
    (<<"EUR", "RUB">> :> RateRec(Frac(100, 1), 5)) @@
    (<<"XXX", "USD">> :> RateRec(Frac(2, 1), 6)) @@
    (<<"USD", "GBP">> :> RateRec(Zero, 7))

\* rates.json holding the records of keys
BridgeDoc(keys) ==
    [source |-> "ParserService", last_refresh |-> 7,
     rates |-> [k \in keys |-> BridgeRecords[k]]]

\* (from, to) asked of get_rate
BridgePairs ==
    {<<"EUR", "RUB">>, <<"RUB", "EUR">>, <<"EUR", "EUR">>, <<"EUR", "USD">>,
     <<"USD", "RUB">>, <<"BTC", "RUB">>, <<"GBP", "EUR">>, <<"EUR", "GBP">>,
     <<"XXX", "XXX">>, <<"XXX", "USD">>, <<"XXX", "EUR">>, <<"USD", "USD">>,
     <<"GBP", "USD">>}

InitBridge ==
    /\ portfolios = NoPortfolios
    /\ now = BridgeNow
    /\ UsersIdle
    /\ CliIdle
    /\ SvcIdle
    /\ DbIdle
    /\ pf = [user_id |-> 1, wallets |-> EmptyWallets]
    /\ res = [op |-> "init"]
    /\ rates \in {Absent} \cup
                 {BridgeDoc(keys) : keys \in SUBSET DOMAIN BridgeRecords}

NextBridge == \E p \in BridgePairs : GetRate(p[1], p[2])

SpecBridge == InitBridge /\ [][NextBridge]_vars

\* the last call was get_rate
AskedRate == res.op = "get_rate"

\* the document the call loaded
AskedDoc == load_rates(res.before, res.t)

\* the document holds a record for (a, b) or for (b, a)
HasRecord(doc, a, b) ==
    <<a, b>> \in DOMAIN doc.rates \/ <<b, a>> \in DOMAIN doc.rates

\* C32: get_rate returns absent and raises nothing whenever one of the two
\* codes is not a currency of the registry, also when the two codes are
\* equal
C32_UnregisteredAbsent ==
    AskedRate /\ (~is_currency_registered(res.code)
                     \/ ~is_currency_registered(res.to))
        => res.out = NoRate

\* for unregistered codes get_rate never raises; it answers from the
\* records like for any other code
C32_UnregisteredNeverRaises ==
    AskedRate /\ (~is_currency_registered(res.code)
                     \/ ~is_currency_registered(res.to))
        => /\ res.out.exc = NoExc
           /\ res.code # res.to /\ ~HasRecord(AskedDoc, res.code, res.to)
                  /\ "USD" \in {res.code, res.to} => res.out = NoRate

\* get_rate("XXX", "XXX") answered 1.0
C32_WitnessSame ==
    /\ AskedRate
    /\ res.code = "XXX"
    /\ res.to = "XXX"
    /\ res.out = RateInfo(Frac(1, 1), BridgeNow)

\* get_rate("XXX", "EUR") answered from the records XXX_USD and USD_EUR
C32_WitnessBridged ==
    /\ AskedRate
    /\ res.code = "XXX"
    /\ res.to = "EUR"
    /\ res.out = RateInfo(Frac(184, 100), 2)

\* the number of get_rate calls nested inside get_rate(from, to), counted
\* along the calls of the bridging branch
RECURSIVE nested_levels(_, _, _)
nested_levels(doc, from_currency, to_currency) ==
    IF \/ from_currency = to_currency
       \/ HasRecord(doc, from_currency, to_currency)
    THEN 0
    ELSE IF from_currency # "USD" /\ to_currency # "USD"
    THEN 1 + Max(nested_levels(doc, from_currency, "USD"),
                 nested_levels(doc, "USD", to_currency))
    ELSE 0

\* the leg (a, b) is resolved by the record of the reverse key
ByInverse(doc, a, b) ==
    <<a, b>> \notin DOMAIN doc.rates /\ <<b, a>> \in DOMAIN doc.rates

\* the leg divides by a stored rate of 0
LegDivides(doc, a, b) ==
    ByInverse(doc, a, b) /\ doc.rates[<<b, a>>].rate = Zero

\* rate and time of a leg that has a direct or an inverse record
LegRate(doc, a, b) ==
    IF ByInverse(doc, a, b)
    THEN FDiv(Frac(1, 1), doc.rates[<<b, a>>].rate)
    ELSE doc.rates[<<a, b>>].rate

LegTime(doc, a, b) ==
    IF ByInverse(doc, a, b)
    THEN doc.rates[<<b, a>>].updated_at
    ELSE doc.rates[<<a, b>>].updated_at

Earlier(a, b) == IF a <= b THEN a ELSE b

\* from -> USD composed with USD -> to, each leg from its own record
Composed(doc, a, b) ==
    RateInfo(FMul(LegRate(doc, a, "USD"), LegRate(doc, "USD", b)),
             Earlier(LegTime(doc, a, "USD"), LegTime(doc, "USD", b)))

BothLegs(doc, a, b) == HasRecord(doc, a, "USD") /\ HasRecord(doc, "USD", b)

SomeLegDivides(doc, a, b) ==
    LegDivides(doc, a, "USD") \/ LegDivides(doc, "USD", b)

\* get_rate was asked for a pair without direct or inverse record
NoRecordAsked == AskedRate /\ ~HasRecord(AskedDoc, res.code, res.to)

\* C33: with no direct and no inverse record for (from, to) and neither
\* code USD, get_rate returns rate(from->USD) * rate(USD->to) at the
\* earlier of the two legs' times, each leg taken from a direct or an
\* inverse record only; it is absent when a leg is missing or one code is
\* USD, and get_rate never nests more than one level
C33_UsdBridge ==
    /\ NoRecordAsked /\ res.code # "USD" /\ res.to # "USD" =>
           IF BothLegs(AskedDoc, res.code, res.to)
           THEN /\ res.out.found
                /\ ~SomeLegDivides(AskedDoc, res.code, res.to) =>
                       res.out = Composed(AskedDoc, res.code, res.to)
           ELSE res.out = NoRate
    /\ NoRecordAsked /\ "USD" \in {res.code, res.to} => res.out = NoRate
    /\ AskedRate => nested_levels(AskedDoc, res.code, res.to) <= 1

\* the same for two different codes; a leg that is the inverse of a stored
\* rate of 0 makes the call raise ZeroDivisionError
C33_BridgeOfDistinctCodes ==
    /\ NoRecordAsked /\ res.code # res.to
          /\ res.code # "USD" /\ res.to # "USD" =>
           IF SomeLegDivides(AskedDoc, res.code, res.to)
           THEN res.out = RateRaised(ZeroDivisionError)
           ELSE IF BothLegs(AskedDoc, res.code, res.to)
           THEN res.out = Composed(AskedDoc, res.code, res.to)
           ELSE res.out = NoRate
    /\ NoRecordAsked /\ res.code # res.to /\ "USD" \in {res.code, res.to} =>
           res.out = NoRate
    /\ AskedRate /\ res.code = res.to =>
           res.out = RateInfo(Frac(1, 1), res.t)
    /\ AskedRate => nested_levels(AskedDoc, res.code, res.to) <= 1

\* get_rate("RUB", "EUR") composed of RUB_USD (time 4) and USD_EUR (time 2)
C33_Witness ==
    /\ NoRecordAsked
    /\ res.code = "RUB"
    /\ res.to = "EUR"
    /\ <<"RUB", "USD">> \in DOMAIN AskedDoc.rates
    /\ res.out = RateInfo(Frac(92, 10000), 2)

\* get_rate("EUR", "EUR") with no record: 1.0 at the time of the call
C33_WitnessSame ==
    /\ NoRecordAsked
    /\ res.code = "EUR"
    /\ res.to = "EUR"
    /\ BothLegs(AskedDoc, "EUR", "EUR")
    /\ res.out = RateInfo(Frac(1, 1), BridgeNow)

\* get_rate("GBP", "EUR") raised on the inverse of USD_GBP = 0
C33_WitnessRaised ==
    /\ NoRecordAsked
    /\ res.code = "GBP"
    /\ res.to = "EUR"
    /\ res.out = RateRaised(ZeroDivisionError)
(***************************************************************************)
(* create_portfolio_for_user on a user id that has a portfolio or not,     *)
(* checked on Spec.                                                        *)
(***************************************************************************)
\* the step is a call of create_portfolio_for_user
Creates == res'.op = "create_portfolio_for_user"

\* the other users' portfolios are as before the step
OthersKept(user_id) ==
    \A u \in DOMAIN portfolios' \ {user_id} :
        u \in DOMAIN portfolios /\ portfolios'[u] = portfolios[u]

\* C34: create_portfolio_for_user(user_id) adds a portfolio seeded with a
\* USD wallet of 1000.0 only when the document has no record for the user
\* id; a portfolio already stored for the id, and its balances, stay as
\* they were
C34_CreateOnlyIfAbsent ==
    [][Creates =>
           IF res'.user_id \in DOMAIN portfolios
           THEN portfolios' = portfolios
           ELSE /\ res'.user_id \in DOMAIN portfolios'
                /\ portfolios'[res'.user_id]["USD"] = Frac(1000, 1)
                /\ OthersKept(res'.user_id)]_vars

\* whatever was stored for the id, the call leaves the seeded portfolio
\* there: USD at 1000.0 and EUR, BTC, ETH at 0.0
C34_CreateSeedsAnew ==
    [][Creates =>
           /\ res'.user_id \in DOMAIN portfolios'
           /\ portfolios'[res'.user_id] =
                  ("USD" :> Frac(1000, 1)) @@ ("EUR" :> Zero)
                      @@ ("BTC" :> Zero) @@ ("ETH" :> Zero)
           /\ OthersKept(res'.user_id)]_vars

\* a create call for user 1 has left the seeded portfolio, the document
\* holding the portfolio of user 2 as well
C34_WitnessReset ==
    /\ res.op = "create_portfolio_for_user"
    /\ res.user_id = 1
    /\ portfolios[1]["USD"] = Frac(1000, 1)
    /\ 2 \in DOMAIN portfolios
(***************************************************************************)
(* BaseApiClient._make_request (parser_service/api_clients.py): one client *)
(* object whose requests are made one after the other.  Times are whole    *)
(* seconds; a duration of 0 is an answer or a failure that comes within    *)
(* the second.                                                             *)
(***************************************************************************)
\* config.REQUEST_TIMEOUT
REQUEST_TIMEOUT == 10

\* the clock of the client model stops here
MaxClientTime == 14

\* what requests.get does: it returns a response (status 200 with JSON,
\* another status, a body that is no JSON) or raises
RequestOutcomes ==
    {"ok", "http_error", "bad_json", "timeout", "connection_error",
     "request_exception"}

\* seconds requests.get takes when it does not time out
RequestDurations == {0, 1, 2}

\* seconds between two calls of _make_request
IdleTimes == {1, 3}

\* requests.get returned a response: line 67 is reached
responded(outcome) == outcome \in {"ok", "http_error", "bad_json"}

\* the seconds slept before the request
delay_before(c) ==
    IF c.clock - c.last_request_time < c.request_delay
    THEN c.request_delay - (c.clock - c.last_request_time)
    ELSE 0

\* the last two of the issue times
last_two(issued) ==
    IF Len(issued) <= 2 THEN issued ELSE SubSeq(issued, Len(issued) - 1,
                                                Len(issued))

\* _make_request(url, params): the client after the call; the request is
\* issued after the sleep and takes dur seconds
make_request(c, outcome, dur) ==
    [c EXCEPT
        !.clock = c.clock + delay_before(c) + dur,
        !.last_request_time =
            IF responded(outcome) THEN c.clock + delay_before(c) + dur
            ELSE c.last_request_time,
        !.issued = last_two(Append(c.issued, c.clock + delay_before(c))),
        !.last = outcome]

\* what the caller gets: the parsed body or ApiRequestError
request_result(outcome) ==
    IF outcome = "ok" THEN [exc |-> NoExc, ret |-> "data"]
    ELSE [exc |-> ApiRequestError, ret |-> None]

InitClient ==
    /\ AppIdle
    /\ pf = [user_id |-> 1, wallets |-> EmptyWallets]
    /\ res = [op |-> "init"]

ClientFrame ==
    UNCHANGED <<pf, tradeVars, userVars, cliVars, memo, scheduler, dbVars>>

\* a call of client._make_request
MakeRequest(outcome, dur) ==
    /\ client.clock + delay_before(client) + dur <= MaxClientTime
    /\ client' = make_request(client, outcome, dur)
    /\ res' = [op |-> "_make_request", slept |-> delay_before(client),
               prev |-> client.last,
               exc |-> request_result(outcome).exc,
               ret |-> request_result(outcome).ret]
    /\ ClientFrame

\* time passes between two calls
Idle(d) ==
    /\ client.clock + d <= MaxClientTime
    /\ client' = [client EXCEPT !.clock = @ + d]
    /\ res' = [op |-> "idle"]
    /\ ClientFrame

NextClient ==
    \/ \E outcome \in RequestOutcomes \ {"timeout"},
          dur \in RequestDurations : MakeRequest(outcome, dur)
    \/ MakeRequest("timeout", REQUEST_TIMEOUT)
    \/ \E d \in IdleTimes : Idle(d)

SpecClient == InitClient /\ [][NextClient]_vars

\* seconds between the last two requests of the client
Gap == client.issued[2] - client.issued[1]

\* C35: two consecutive requests of a client are at least 1.0 second
\* apart, whatever the outcome of the earlier one
C35_RequestSpacing ==
    Len(client.issued) = 2 => Gap >= client.request_delay

\* the spacing holds after a request that got a response or timed out
C35_SpacingAfterResponse ==
    /\ res.op = "_make_request"
    /\ Len(client.issued) = 2
    /\ responded(res.prev) \/ res.prev = "timeout"
    => Gap >= client.request_delay

\* a request issued in the same second as one that failed to connect
C35_WitnessClose ==
    /\ res.op = "_make_request"
    /\ Len(client.issued) = 2
    /\ res.prev = "connection_error"
    /\ Gap = 0

\* a request delayed by the sleep after a response
C35_Witness ==
    /\ res.op = "_make_request"
    /\ Len(client.issued) = 2
    /\ res.prev = "http_error"
    /\ res.slept = 1
    /\ Gap = 1
(***************************************************************************)
(* log_action (decorators.py).  A Python value is [type, v], v being what  *)
(* str() gives for it; a log message is the sequence of the parts that     *)
(* " ".join puts together.                                                 *)
(***************************************************************************)
PyStr(s) == [type |-> "str", v |-> s]

PyInt(s) == [type |-> "int", v |-> s]

PyFloat(s) == [type |-> "float", v |-> s]

NoneValue == [type |-> "NoneType", v |-> "None"]

\* a User object: it has the attributes username and user_id
UserObject == [type |-> "User", v |-> "<User>"]

Unknown == PyStr("unknown")

\* hasattr(arg, name) and getattr(arg, name)
hasattr(arg, name) == arg.type = "User" /\ name \in {"username", "user_id"}

getattr(arg, name) == IF name = "username" THEN PyStr("alice") ELSE PyInt("1")

\* isinstance(value, (int, float))
is_number(value) == value.type \in {"int", "float"}

\* value != 0.0
differs_from_zero(value) == ~(is_number(value) /\ value.v \in {"0", "0.0"})

\* the value of the last argument that has the attribute, or none
RECURSIVE attr_of_args(_, _, _)
attr_of_args(args, name, found) ==
    IF args = <<>> THEN found
    ELSE attr_of_args(Tail(args), name,
                      IF hasattr(Head(args), name)
                      THEN <<getattr(Head(args), name)>> ELSE found)

\* _extract_user_info(args, kwargs).get(name, 'unknown')
extract_user_info(args, kwargs, name) ==
    IF name \in DOMAIN kwargs THEN kwargs[name]
    ELSE IF attr_of_args(args, name, <<>>) # <<>>
    THEN attr_of_args(args, name, <<>>)[1]
    ELSE Unknown

\* _extract_currency_info(args, kwargs).get('currency', 'unknown'); the
\* second positional argument is args[1] in Python
extract_currency(args, kwargs) ==
    IF Len(args) > 1 /\ args[2].type = "str" THEN args[2]
    ELSE IF "currency_code" \in DOMAIN kwargs THEN kwargs["currency_code"]
    ELSE IF "currency" \in DOMAIN kwargs THEN kwargs["currency"]
    ELSE Unknown

\* _extract_currency_info(args, kwargs).get('amount', 0.0)
extract_amount(args, kwargs) ==
    IF Len(args) > 2 /\ is_number(args[3]) THEN args[3]
    ELSE IF "amount" \in DOMAIN kwargs THEN kwargs["amount"]
    ELSE PyFloat("0.0")

\* _extract_rate_info(args, kwargs).get('rate')
extract_rate(kwargs) ==
    IF "rate" \in DOMAIN kwargs THEN kwargs["rate"]
    ELSE IF "exchange_rate" \in DOMAIN kwargs THEN kwargs["exchange_rate"]
    ELSE NoneValue

\* _extract_rate_info(args, kwargs).get('base', 'USD')
extract_base(kwargs) ==
    IF "base" \in DOMAIN kwargs THEN kwargs["base"]
    ELSE IF "base_currency" \in DOMAIN kwargs THEN kwargs["base_currency"]
    ELSE PyStr("USD")

\* a result is a value or a tuple [type |-> "tuple", items]; bool(result)
is_true(result) ==
    IF result.type = "tuple" THEN result.items # <<>>
    ELSE result.type # "NoneType" /\ differs_from_zero(result)
             /\ result.v # ""

\* _extract_context_info(result, args, kwargs): the cost_revenue entries
extract_context_info(result) ==
    IF result.type = "tuple" /\ Len(result.items) > 2
    THEN <<result.items[3]>>
    ELSE <<>>

\* f"{value:.8f}" for the numbers used below
Fixed8 == ("0.5" :> "0.50000000") @@ ("2" :> "2.00000000")

FormatError ==
    [type |-> "ValueError",
     message |-> "Unknown format code 'f' for object of type 'str'"]

\* the rate part cannot be formatted
rate_unformattable(rate) == rate # NoneValue /\ ~is_number(rate)

\* error_msg[:97] + "..." when the message is longer than 100 characters
shown_message(message) ==
    IF Len(message) > 100 THEN SubSeq(message, 1, 97) \o "..." ELSE message

\* every call is logged with logger.info
level_info(success) == "info"

\* logger.info(log_message) if success else logger.error(log_message)
level_of(success) == IF success THEN "info" ELSE "error"

\* _format_log_message(log_data), log_data as built in the finally block;
\* error is <<>> or <<the exception>>, ctx the context entries
format_log_message(timestamp, action, username, user_id, currency_code, amount, rate, base, success, ctx, ms, error) ==
    <<timestamp, action>>
    \o (IF username # Unknown THEN <<"user='" \o username.v \o "'">>
        ELSE IF user_id # Unknown THEN <<"user_id=" \o user_id.v>>
        ELSE <<>>)
    \o (IF currency_code # Unknown
        THEN <<"currency='" \o currency_code.v \o "'">> ELSE <<>>)
    \o (IF differs_from_zero(amount) THEN <<"amount=" \o amount.v>>
        ELSE <<>>)
    \o (IF rate # NoneValue
        THEN <<"rate=" \o Fixed8[rate.v], "base='" \o base.v \o "'">>
        ELSE <<>>)
    \o <<IF success THEN "result=OK" ELSE "result=ERROR">>
    \o (IF ctx = <<>> THEN <<>>
        ELSE IF is_number(ctx[1]) THEN <<"cost_revenue=" \o ctx[1].v>>
        ELSE <<"cost_revenue='" \o ctx[1].v \o "'">>)
    \o <<"exec_time=" \o ms \o "ms">>
    \o (IF ~success /\ error # <<>>
        THEN <<"error_type='" \o error[1].type \o "'",
               "error='" \o shown_message(error[1].message) \o "'">>
        ELSE <<>>)

\* func.__name__.upper() of the wrapped function
func_name_upper == "PAY"

\* log_action(action_name, verbose)(func)(*args, **kwargs), func doing
\* outcome after dur seconds: [ret, exc, log]
log_action(action_name, verbose, args, kwargs, outcome, t, dur) ==
    IF rate_unformattable(extract_rate(kwargs))
    THEN [ret |-> NoneValue, exc |-> FormatError, log |-> <<>>]
    ELSE [ret |-> IF outcome.kind = "return" THEN outcome.value
                  ELSE NoneValue,
          exc |-> IF outcome.kind = "return" THEN NoExc ELSE outcome.exc,
          log |-> <<[level |-> level_of(outcome.kind = "return"),
                     message |->
                         format_log_message(
                             "T" \o ToString(t + dur),
                             IF action_name = NoneValue THEN func_name_upper
                             ELSE action_name.v,
                             extract_user_info(args, kwargs, "username"),
                             extract_user_info(args, kwargs, "user_id"),
                             extract_currency(args, kwargs),
                             extract_amount(args, kwargs),
                             extract_rate(kwargs),
                             extract_base(kwargs),
                             outcome.kind = "return",
                             IF outcome.kind = "return" /\ verbose
                                    /\ is_true(outcome.value)
                             THEN extract_context_info(outcome.value)
                             ELSE <<>>,
                             ToString(dur * 1000) \o ".0",
                             IF outcome.kind = "raise" THEN <<outcome.exc>>
                             ELSE <<>>)]>>]

\* a message of 110 characters
LongMessage ==
    "xxxxxxxxxxxxxxxxxxxxxxxxxxxxxxxxxxxxxxxxxxxxxxxxxxxxxxx"
        \o "xxxxxxxxxxxxxxxxxxxxxxxxxxxxxxxxxxxxxxxxxxxxxxxxxxxxxxx"

\* what the wrapped function does
LogOutcomes ==
    {Returns([type |-> "tuple",
              items |-> <<[type |-> "bool", v |-> "True"], PyStr("msg"),
                          PyFloat("40000.0")>>]),
     Returns(NoneValue),
     Returns(PyStr("done")),
     Raises([type |-> "ValueError", message |-> "bad"]),
     Raises([type |-> "InsufficientFundsError", message |-> LongMessage]),
     Exits([type |-> "KeyboardInterrupt", message |-> ""])}

\* the positional and the keyword arguments of the calls
LogArgs ==
    {<<>>, <<UserObject, PyStr("BTC"), PyFloat("0.5")>>,
     <<[type |-> "object", v |-> "<self>"], PyInt("1"), PyStr("BTC"),
       PyFloat("0.5")>>}

LogKwargs ==
    {<<>>,
     [k \in {"user_id", "currency_code", "amount"} |->
         IF k = "user_id" THEN PyInt("1")
         ELSE IF k = "amount" THEN PyInt("0") ELSE PyStr("EUR")],
     [k \in {"username", "rate", "base_currency"} |->
         IF k = "username" THEN PyStr("bob")
         ELSE IF k = "rate" THEN PyFloat("0.5") ELSE PyStr("EUR")],
     [k \in {"exchange_rate"} |-> PyInt("2")],
     [k \in {"rate"} |-> NoneValue],
     [k \in {"rate"} |-> PyStr("0.5")]}

LogNames == {NoneValue, PyStr("BUY")}

InitLog ==
    /\ AppIdle
    /\ pf = [user_id |-> 1, wallets |-> EmptyWallets]
    /\ res = [op |-> "init"]

\* a call of a function wrapped by log_action
LogAction(action_name, verbose, args, kwargs, outcome, dur) ==
    /\ res' = [op |-> "log_action", action_name |-> action_name,
               verbose |-> verbose, kwargs |-> kwargs, outcome |-> outcome,
               out |-> log_action(action_name, verbose, args, kwargs,
                                  outcome, now, dur)]
    /\ UNCHANGED <<pf, tradeVars, userVars, cliVars, svcVars, dbVars>>

NextLog ==
    \E action_name \in LogNames, verbose \in BOOLEAN, args \in LogArgs,
       kwargs \in LogKwargs, outcome \in LogOutcomes, dur \in {0, 1} :
        LogAction(action_name, verbose, args, kwargs, outcome, dur)

SpecLog == InitLog /\ [][NextLog]_vars

Logged == res.op = "log_action"

\* the parts of the one line logged
Line == res.out.log[1].message

Has(part) == \E i \in 1..Len(Line) : Line[i] = part

\* one line at the level with the result part
OneLine(level, result) ==
    /\ Len(res.out.log) = 1
    /\ res.out.log[1].level = level
    /\ Has(result)

StartsWith(s, prefix) ==
    Len(s) >= Len(prefix) /\ SubSeq(s, 1, Len(prefix)) = prefix

\* the line carries type and message of the exception
HasError(exc) ==
    /\ Has("error_type='" \o exc.type \o "'")
    /\ Has("error='" \o shown_message(exc.message) \o "'")

C36_WitnessInterrupt ==
    /\ Logged
    /\ res.outcome.kind = "exit"
    /\ Len(res.out.log) = 1
    /\ Line = <<"T0", "PAY", "result=ERROR", "exec_time=0.0ms">>

\* a call that returned, with rate='0.5': ValueError and no line
C36_WitnessNoLine ==
    /\ Logged
    /\ res.outcome.kind = "return"
    /\ res.out.exc = FormatError
    /\ res.out.log = <<>>
(***************************************************************************)
(* Users that come from register_user, trading: register_user,             *)
(* buy_currency and sell_currency while RateManager.update_rate changes    *)
(* the rates.                                                              *)
(***************************************************************************)
RegisteredNames == {"alice", "bob"}

\* a password that is accepted and one that is too short
RegisteredPasswords == {"pass1234", "abc"}

\* (from, to, rate) given to update_rate: a rate of 0, float('inf'), and
\* a pair the defaults do not hold
RegisteredRates ==
    {<<"USD", "BTC", Zero>>, <<"USD", "EUR", Infinity>>,
     <<"USD", "RUB", Frac(90, 1)>>}

NextRegistered ==
    \/ \E username \in RegisteredNames, password \in RegisteredPasswords :
           Register(username, password, "saltsalt")
    \/ \E u \in RegisteredRates : UpdateRate(u[1], u[2], u[3])
    \/ \E u \in Uids, o \in Orders : Buy(u, o[1], o[2])
    \/ \E u \in Uids, o \in Orders : Sell(u, o[1], o[2])

SpecRegistered == InitUsers /\ [][NextRegistered]_vars

\* the last call was a buy or sell by a user who has a portfolio
TradedBy(op) == res.op = op /\ res.had

C37_WitnessSell ==
    /\ TradedBy("sell")
    /\ res.code = "BTC"
    /\ res.exc = InsufficientFundsError("BTC", Zero, Frac(1, 1))

(***************************************************************************)
(* Failed trades: buy_currency and sell_currency on a seeded portfolio and *)
(* on an empty one, while update_rate stores rates of 0 and of             *)
(* float('inf'), which make the rate branch and the try block fail.        *)
(***************************************************************************)
\* (from, to, rate) given to update_rate
FailedRates == RateUpdates \cup {<<"USD", "EUR", Infinity>>}

NextFailed ==
    \/ CreatePortfolioForUser(1)
    \/ StoreEmptyPortfolio(2)
    \/ \E u \in FailedRates : UpdateRate(u[1], u[2], u[3])
    \/ \E u \in Uids, o \in Orders : Buy(u, o[1], o[2])
    \/ \E u \in Uids, o \in Orders : Sell(u, o[1], o[2])

SpecFailed == Init /\ [][NextFailed]_vars

\* the step is a buy_currency or sell_currency call that raised
TradeRaised ==
    /\ res'.op \in {"buy", "sell"}
    /\ res'.exc # NoExc

\* C38: whenever buy_currency or sell_currency raises, portfolios.json is
\* what it was before the call: no balance change and no wallet created
\* during the failed call is saved
C38_FailedTradeSavesNothing ==
    [][TradeRaised => portfolios' = portfolios]_vars

\* a buy by the user with the empty portfolio failed inside the try block
\* (cost 0.0 at a rate of inf) after the USD and EUR wallets had been
\* created in memory; the stored portfolio still has no wallet
C38_Witness ==
    /\ res.op = "buy"
    /\ res.user_id = 2
    /\ res.had
    /\ res.exc = ValueError
    /\ res.steps = <<WalletCall("withdraw", "USD", FALSE)>>
    /\ DOMAIN res.mem = {"USD", "EUR"}
    /\ portfolios[2] = EmptyWallets

\* a sell of EUR failed at the deposit of a revenue of 0.0 after the
\* withdrawal; the amount was put back and the stored balances are those
\* from before the call
C38_WitnessRestored ==
    /\ res.op = "sell"
    /\ res.exc = ValueError
    /\ Len(res.steps) = 3
    /\ FLt(Zero, res.before["EUR"])
    /\ portfolios[res.user_id] = res.before

\* the failures the claim lists all occur: invalid amount, unknown
\* currency, user without portfolio, missing or non-positive rate,
\* insufficient funds
C38_WitnessInvalidAmount == res.op = "buy" /\ res.exc = InvalidAmountError

C38_WitnessNoRate ==
    /\ res.op = "buy"
    /\ res.had
    /\ res.code = "RUB"
    /\ res.exc = CurrencyNotFoundError

(***************************************************************************)
(* The session of one CLI object: self.current_user under the login        *)
(* handler of the command line, the login, logout and gated commands of    *)
(* the shell loop, and the gated handlers.  A line typed into the shell is *)
(* the sequence of its words.                                              *)
(***************************************************************************)
\* the value True that _parse_shell_args stores for an option without value
PyTrue == [type |-> "bool", v |-> "True"]

\* args[key] = value
Put(args, key, value) ==
    [k \in DOMAIN args \cup {key} |-> IF k = key THEN value ELSE args[k]]

RECURSIVE parse_from(_, _, _)
\* the while loop of _parse_shell_args from word i on
parse_from(parts, i, args) ==
    IF i > Len(parts) THEN args
    ELSE IF ~StartsWith(parts[i], "--")
    THEN parse_from(parts, i + 1, args)
    ELSE IF i + 1 <= Len(parts) /\ ~StartsWith(parts[i + 1], "--")
    THEN parse_from(parts, i + 2, Put(args, parts[i], PyStr(parts[i + 1])))
    ELSE parse_from(parts, i + 1, Put(args, parts[i], PyTrue))

\* CLI._parse_shell_args
parse_shell_args(parts) == parse_from(parts, 1, [k \in {} |-> PyTrue])

\* authenticate_user called with True for the name or the password: no
\* stored name equals True, and True.encode raises AttributeError, which
\* authenticate_user turns into a failure
authenticate_flag(session, udoc, pdoc, file, username) ==
    Handled(session,
            IF username.type = "str"
               /\ find_user_by_username(udoc, username.v) # None
            THEN "authentication error"
            ELSE "AuthenticationError",
            "authenticate_user", udoc, pdoc, file)

\* CLI._process_shell_login
process_shell_login(session, udoc, pdoc, file, parts) ==
    LET args == parse_shell_args(parts)
    IN  IF ~({"--username", "--password"} \subseteq DOMAIN args)
        THEN Handled(session, "usage", "none", udoc, pdoc, file)
        ELSE IF args["--username"].type = "str"
                /\ args["--password"].type = "str"
        THEN handle_login(session, udoc, pdoc, file,
                          args["--username"].v, args["--password"].v)
        ELSE authenticate_flag(session, udoc, pdoc, file,
                               args["--username"])

\* one line of the loop of CLI.handle_shell with the dispatch on its first
\* word; currency and amount are the values of a buy or sell line
shell_line(session, udoc, pdoc, file, parts, currency, amount, t) ==
    IF parts[1] = "login"
    THEN process_shell_login(session, udoc, pdoc, file, parts)
    ELSE IF parts[1] \in ShellCommands
    THEN shell_command(session, udoc, pdoc, file, parts[1], currency,
                       amount, t)
    ELSE Handled(session, "unknown command", "none", udoc, pdoc, file)

\* the login lines typed: complete ones, one without password, one whose
\* password option has no value, one without options
LoginLines ==
    {<<"login", "--username", u, "--password", p>> :
         u \in CliNames, p \in CliPasswords}
    \cup {<<"login", "--username", "alice">>,
          <<"login", "--username", "alice", "--password">>,
          <<"login", "--username", "--password", "pass1234">>,
          <<"login">>}

\* the other lines typed; Logout is no command of the loop
OtherLines ==
    {<<c>> : c \in ShellCommands} \cup {<<"Logout">>}

\* the name a line logs in with, "" when it gives none
NameOf(parts) ==
    IF Len(parts) >= 3 /\ parts[2] = "--username" THEN parts[3] ELSE ""

\* the handler of `op` ran, from the shell loop when shell, and returned out
SessionStep(op, shell, username, out) ==
    /\ Len(out.users) <= MaxUsers
    /\ Capped(portfolios, out.portfolios)
    /\ current_user' = out.current_user
    /\ users' = out.users
    /\ portfolios' = out.portfolios
    /\ rates' = out.rates
    /\ res' = [op |-> op, shell |-> shell, username |-> username,
               before |-> current_user, printed |-> out.printed,
               called |-> out.called,
               unchanged |-> /\ out.users = users
                             /\ out.portfolios = portfolios
                             /\ out.rates = rates]
    /\ UNCHANGED <<pf, now, user, svcVars, dbVars>>

\* register --username u --password p
SessionRegister(username, password) ==
    SessionStep("register", FALSE, username,
                handle_register(current_user, users, portfolios, rates,
                                username, password, "saltsalt", now))

\* login --username u --password p
SessionLogin(username, password) ==
    SessionStep("login", FALSE, username,
                handle_login(current_user, users, portfolios, rates,
                             username, password))

\* show-portfolio
SessionShowPortfolio ==
    SessionStep("show-portfolio", FALSE, "",
                handle_show_portfolio(current_user, users, portfolios,
                                      rates, "USD", now))

\* buy --currency c --amount a
SessionBuy(currency, amount) ==
    SessionStep("buy", FALSE, "",
                handle_buy(current_user, users, portfolios, rates,
                           currency, amount, now))

\* sell --currency c --amount a
SessionSell(currency, amount) ==
    SessionStep("sell", FALSE, "",
                handle_sell(current_user, users, portfolios, rates,
                            currency, amount, now))

\* one line typed into the shell
SessionShell(parts, currency, amount) ==
    SessionStep(parts[1], TRUE, NameOf(parts),
                shell_line(current_user, users, portfolios, rates, parts,
                           currency, amount, now))

NextSession ==
    \/ \E u \in CliNames, p \in CliPasswords : SessionRegister(u, p)
    \/ \E u \in CliNames, p \in CliPasswords : SessionLogin(u, p)
    \/ SessionShowPortfolio
    \/ \E o \in CliOrders : SessionBuy(o[1], o[2])
    \/ \E o \in CliOrders : SessionSell(o[1], o[2])
    \/ \E l \in LoginLines \cup OtherLines, o \in CliOrders :
           SessionShell(l, o[1], o[2])

SpecSession == InitCli /\ [][NextSession]_vars

\* the last command was a login that succeeded
LoginSucceeded == res.op = "login" /\ res.printed = "logged in as"

\* the session of the stored user with the name the login gave
SessionOf(username) ==
    LET found == find_user_by_username(users, username)
    IN  [id |-> found.user_id, username |-> found.username,
         user_object |-> found]

\* the last command was show-portfolio, buy or sell
Gated == res.op \in {"show-portfolio", "buy", "sell"}

\* C39: self.current_user changes only on a successful login, which sets
\* it to that user, and on logout, which clears it; a failed login leaves
\* it as it was, and while it is cleared every show-portfolio, buy and
\* sell is rejected before any use case is called
C39_SessionOnlyLoginLogout ==
    [][/\ current_user' # current_user =>
              LoginSucceeded' \/ (res'.op = "logout" /\ res'.shell)
       /\ LoginSucceeded' =>
              /\ res'.username # ""
              /\ current_user' = SessionOf(res'.username)
       /\ (res'.op = "logout" /\ res'.shell) => current_user' = None
       /\ (res'.op = "login" /\ ~LoginSucceeded') =>
              current_user' = current_user
       /\ (Gated' /\ current_user = None) =>
              /\ res'.printed \in {LoginFirstCli, LoginFirstShell}
              /\ res'.called = "none"
              /\ res'.unchanged
              /\ current_user' = None]_vars

\* bob tried to log in with a wrong password while alice was logged in,
\* and alice is still logged in
C39_Witness ==
    /\ res.op = "login"
    /\ res.username = "bob"
    /\ res.printed = "AuthenticationError"
    /\ find_user_by_username(users, "bob") # None
    /\ res.before # None
    /\ current_user = res.before
    /\ current_user.username = "alice"

\* a logout of the shell cleared the session of a user
C39_WitnessLogout ==
    /\ res.op = "logout"
    /\ res.before # None
    /\ current_user = None

\* with two users registered and nobody logged in, a buy typed into the
\* shell was rejected
C39_WitnessRejected ==
    /\ res.op = "buy"
    /\ res.shell
    /\ Len(users) = 2
    /\ current_user = None
    /\ res.printed = LoginFirstShell

\* a login of the shell replaced the session of alice by that of bob
C39_WitnessReplaced ==
    /\ LoginSucceeded
    /\ res.shell
    /\ res.before # None
    /\ res.before.username = "alice"
    /\ current_user.username = "bob"

(***************************************************************************)
(* rates.json under its two writers in one process: the core RateManager,  *)
(* which opens the file itself, and the RatesStorage of the Parser         *)
(* Service, which goes through db.load_json and db.save_json.  Here cache  *)
(* is the entry of "rates.json" in DatabaseManager._cache and rates is the *)
(* file.                                                                   *)
(***************************************************************************)
\* the dictionary {}
EmptyDict == [k \in {} |-> Zero]

\* db.load_json(self.rates_file) on a file that parses: [data, entry]
load_json_rates(entry, file) ==
    IF entry # None THEN [data |-> entry.data, entry |-> entry]
    ELSE IF file = Absent
    THEN [data |-> EmptyDict, entry |-> Entry(EmptyDict)]
    ELSE [data |-> file, entry |-> Entry(file)]

\* RatesStorage.load_current_rates: [ret, entry]; `not data` is true of {}
load_current_rates(entry, file) ==
    [ret |-> load_json_rates(entry, file).data,
     entry |-> load_json_rates(entry, file).entry]

\* RatesStorage.save_current_rates: [ret, file, entry]
save_current_rates(entry, file, pairs, source, t) ==
    [ret |-> TRUE,
     file |-> saved_document(file, current_rates_document(pairs, source, t)),
     entry |-> Entry(current_rates_document(pairs, source, t))]

\* (from, to, rate) the core writes
VisibleRates ==
    {<<"EUR", "RUB", Frac(199, 2)>>, <<"EUR", "RUB", Frac(101, 1)>>,
     <<"BTC", "USD", Frac(60000, 1)>>}

\* the pairs the Parser Service saves
VisiblePairs ==
    {<<"BTC", "USD">> :> Frac(59000, 1),
     (<<"BTC", "USD">> :> Frac(59000, 1))
         @@ (<<"EUR", "RUB">> :> Frac(90, 1))}

VisibleFrame ==
    UNCHANGED <<pf, portfolios, now, userVars, cliVars, svcVars, dir, inodes,
                lock, threads, saves, exchange_rates>>

\* RatesStorage().load_current_rates(), as show-rates and
\* get_update_status call it
LoadCurrentRates ==
    /\ cache' = load_current_rates(cache, rates).entry
    /\ res' = [op |-> "load_current_rates",
               ret |-> load_current_rates(cache, rates).ret,
               cached |-> cache # None]
    /\ UNCHANGED rates
    /\ VisibleFrame

\* RatesStorage().save_current_rates(pairs, "ParserService")
SaveCurrentRates(pairs) ==
    /\ cache' = save_current_rates(cache, rates, pairs, "ParserService",
                                   now).entry
    /\ rates' = save_current_rates(cache, rates, pairs, "ParserService",
                                   now).file
    /\ res' = [op |-> "save_current_rates", pairs |-> pairs]
    /\ VisibleFrame

\* db.clear_cache("rates.json")
ClearRatesCache ==
    /\ cache' = clear_cache(cache)
    /\ res' = [op |-> "clear_cache"]
    /\ UNCHANGED rates
    /\ VisibleFrame

NextVisible ==
    \/ \E u \in VisibleRates : UpdateRate(u[1], u[2], u[3])
    \/ LoadCurrentRates
    \/ \E pairs \in VisiblePairs : SaveCurrentRates(pairs)
    \/ ClearRatesCache

SpecVisible == InitParser /\ [][NextVisible]_vars

\* the document holds the pair with the rate
Contains(doc, key, rate) ==
    /\ "rates" \in DOMAIN doc
    /\ key \in DOMAIN doc.rates
    /\ doc.rates[key].rate = rate

\* the step is a load_current_rates that follows an update_rate
LoadAfterUpdate ==
    /\ res.op = "update_rate"
    /\ res'.op = "load_current_rates"

\* C40: a rate written to rates.json by RateManager.update_rate is in the
\* document the next RatesStorage.load_current_rates of the process
\* returns, also when the Parser Service has loaded or saved rates.json
\* before
C40_CoreWriteVisible ==
    [][LoadAfterUpdate =>
           Contains(res'.ret, <<res.code, res.to>>, res.amount)]_vars

\* what the code guarantees: the written rate is returned when
\* "rates.json" has no entry in the cache of the DatabaseManager, and
\* otherwise the cached document is returned whatever the file holds
C40_VisibleUnlessCached ==
    [][LoadAfterUpdate =>
           IF cache = None
           THEN /\ res'.ret = rates
                /\ Contains(res'.ret, <<res.code, res.to>>, res.amount)
           ELSE res'.ret = cache.data]_vars

\* load_current_rates returned a document without the EUR_RUB rate that
\* the file holds, after an earlier access of the Parser Service had
\* filled the cache
C40_WitnessStale ==
    /\ res.op = "load_current_rates"
    /\ res.cached
    /\ rates # Absent
    /\ <<"EUR", "RUB">> \in DOMAIN rates.rates
    /\ ~Contains(res.ret, <<"EUR", "RUB">>,
                 rates.rates[<<"EUR", "RUB">>].rate)

\* load_current_rates read the file and returned the rate the core wrote
C40_Witness ==
    /\ res.op = "load_current_rates"
    /\ ~res.cached
    /\ Contains(res.ret, <<"EUR", "RUB">>, Frac(101, 1))

=============================================================================
